---------------------------- MODULE Spec2Model ----------------------------
(***************************************************************************)
(* bible-go: the corpus store (NewBibleData, GetBooks, GetVerses), the     *)
(* search engine (Search and its four strategies), the translation         *)
(* registry (MultiBibleData) and the terminal UI (model.Update) of the     *)
(* Bible reader.  Spec is the corpus and the search engine, RegistrySpec   *)
(* and ConcurrentSpec are the registry, UISpec is the UI, and              *)
(* IntersectSpec is intersect on lists of its own.                         *)
(*                                                                         *)
(* A Go string is a sequence of one-character strings, so that lower-      *)
(* casing, splitting, trimming, number parsing and substring search are    *)
(* computed the way the Go code computes them.  Positions in the flat      *)
(* verse slice are 0-based, as in the code; a TLA+ sequence is 1-based, so *)
(* position p is element p + 1.                                            *)
(***************************************************************************)
EXTENDS Integers, Sequences, FiniteSets, TLC

VARIABLES
    doc,      \* the source document handed to NewBibleData
    bd,       \* the constructed *BibleData
    call,     \* the last operation called on bd, with its arguments
    res,      \* what that operation returned
    mbd,      \* the *MultiBibleData: cache, translation names, file paths
    disk,     \* the state of each translation file
    callers,  \* the position of each caller inside GetCurrentBibleData
    hist,     \* history: constructions per name, names already resolved
    model,    \* the model of the terminal UI
    cmd,      \* the tea.Cmd the last Update returned: "nil" or "Quit"
    stateFile \* the AppState in state.json

corpusVars == <<doc, bd, call, res>>

registryVars == <<mbd, disk, callers, hist>>

uiVars == <<model, cmd, stateFile>>

vars == <<doc, bd, call, res, mbd, disk, callers, hist, model, cmd, stateFile>>

----------------------------------------------------------------------------
(* Go's strings and strconv functions, as the code uses them.              *)

UpperRunes == <<"A", "B", "C", "D", "E", "F", "G", "H", "I", "J", "K", "L", "M", "N", "O", "P", "Q", "R", "S", "T", "U", "V", "W", "X", "Y", "Z">>
LowerRunes == <<"a", "b", "c", "d", "e", "f", "g", "h", "i", "j", "k", "l", "m", "n", "o", "p", "q", "r", "s", "t", "u", "v", "w", "x", "y", "z">>
DigitRunes == <<"0", "1", "2", "3", "4", "5", "6", "7", "8", "9">>
SpaceRunes == {" ", "\t"}

\* strings.ToLower on one rune
ToLowerRune(c) ==
    IF \E i \in 1..Len(UpperRunes) : UpperRunes[i] = c
    THEN LowerRunes[CHOOSE i \in 1..Len(UpperRunes) : UpperRunes[i] = c]
    ELSE c

\* strings.ToLower
ToLower(s) == [i \in 1..Len(s) |-> ToLowerRune(s[i])]

\* strings.HasPrefix
HasPrefix(s, prefix) ==
    Len(prefix) <= Len(s) /\ SubSeq(s, 1, Len(prefix)) = prefix

\* strings.Index: the 0-based position of the first occurrence, or -1
Index(s, substr) ==
    LET hits == {i \in 0..(Len(s) - Len(substr)) :
                    SubSeq(s, i + 1, i + Len(substr)) = substr}
    IN  IF hits = {} THEN -1
        ELSE CHOOSE i \in hits : \A j \in hits : i <= j

\* strings.Contains
Contains(s, substr) == Index(s, substr) >= 0

RECURSIVE FieldsScan(_, _, _, _)
FieldsScan(s, i, word, out) ==
    IF i > Len(s)
    THEN IF word = <<>> THEN out ELSE Append(out, word)
    ELSE IF s[i] \in SpaceRunes
         THEN FieldsScan(s, i + 1, <<>>,
                         IF word = <<>> THEN out ELSE Append(out, word))
         ELSE FieldsScan(s, i + 1, Append(word, s[i]), out)

\* strings.Fields: the maximal runs of non-space runes
Fields(s) == FieldsScan(s, 1, <<>>, <<>>)

RECURSIVE SplitScan(_, _, _, _, _)
SplitScan(s, sep, i, piece, out) ==
    IF i > Len(s)
    THEN Append(out, piece)
    ELSE IF s[i] = sep
         THEN SplitScan(s, sep, i + 1, <<>>, Append(out, piece))
         ELSE SplitScan(s, sep, i + 1, Append(piece, s[i]), out)

\* strings.Split on a one-rune separator: empty pieces are kept
Split(s, sep) == SplitScan(s, sep, 1, <<>>, <<>>)

RECURSIVE TrimLeft(_, _)
TrimLeft(s, cutset) ==
    IF s # <<>> /\ s[1] \in cutset THEN TrimLeft(Tail(s), cutset) ELSE s

RECURSIVE TrimRight(_, _)
TrimRight(s, cutset) ==
    IF s # <<>> /\ s[Len(s)] \in cutset
    THEN TrimRight(SubSeq(s, 1, Len(s) - 1), cutset)
    ELSE s

\* strings.Trim
Trim(s, cutset) == TrimRight(TrimLeft(s, cutset), cutset)

\* strings.TrimSpace
TrimSpace(s) == Trim(s, SpaceRunes)

RECURSIVE Join(_, _)
\* strings.Join
Join(elems, sep) ==
    IF Len(elems) = 0 THEN <<>>
    ELSE IF Len(elems) = 1 THEN elems[1]
    ELSE elems[1] \o sep \o Join(Tail(elems), sep)

DigitValue(c) == (CHOOSE i \in 1..Len(DigitRunes) : DigitRunes[i] = c) - 1

RECURSIVE DigitsValue(_, _)
DigitsValue(s, acc) ==
    IF s = <<>> THEN acc
    ELSE DigitsValue(Tail(s), 10 * acc + DigitValue(s[1]))

IsDigits(s) ==
    s # <<>> /\ \A i \in 1..Len(s) : \E d \in 1..Len(DigitRunes) : DigitRunes[d] = s[i]

\* strconv.Atoi: an optional sign, then one or more decimal digits
\* (leading zeros are accepted); err is nil exactly when ok holds
Atoi(s) ==
    LET signed == s # <<>> /\ s[1] \in {"+", "-"}
        digits == IF signed THEN Tail(s) ELSE s
    IN  IF IsDigits(digits)
        THEN [ok  |-> TRUE,
              num |-> IF signed /\ s[1] = "-"
                      THEN 0 - DigitsValue(digits, 0)
                      ELSE DigitsValue(digits, 0)]
        ELSE [ok |-> FALSE, num |-> 0]

RECURSIVE ItoaNat(_)
ItoaNat(n) ==
    IF n < 10 THEN <<DigitRunes[n + 1]>>
    ELSE Append(ItoaNat(n \div 10), DigitRunes[(n % 10) + 1])

\* strconv.Itoa: decimal, no leading zeros, "-" before a negative number
Itoa(n) == IF n < 0 THEN <<"-">> \o ItoaNat(0 - n) ELSE ItoaNat(n)

----------------------------------------------------------------------------
(* Program constants.                                                      *)

noMatchScore == 1000000
minWordLength == 2
minSearchLength == 2

biblicalOrder == <<
    <<"G", "e", "n", "e", "s", "i", "s">>,
    <<"E", "x", "o", "d", "u", "s">>,
    <<"L", "e", "v", "i", "t", "i", "c", "u", "s">>,
    <<"N", "u", "m", "b", "e", "r", "s">>,
    <<"D", "e", "u", "t", "e", "r", "o", "n", "o", "m", "y">>,
    <<"J", "o", "s", "h", "u", "a">>,
    <<"J", "u", "d", "g", "e", "s">>,
    <<"R", "u", "t", "h">>,
    <<"1", " ", "S", "a", "m", "u", "e", "l">>,
    <<"2", " ", "S", "a", "m", "u", "e", "l">>,
    <<"1", " ", "K", "i", "n", "g", "s">>,
    <<"2", " ", "K", "i", "n", "g", "s">>,
    <<"1", " ", "C", "h", "r", "o", "n", "i", "c", "l", "e", "s">>,
    <<"2", " ", "C", "h", "r", "o", "n", "i", "c", "l", "e", "s">>,
    <<"E", "z", "r", "a">>,
    <<"N", "e", "h", "e", "m", "i", "a", "h">>,
    <<"E", "s", "t", "h", "e", "r">>,
    <<"J", "o", "b">>,
    <<"P", "s", "a", "l", "m">>,
    <<"P", "r", "o", "v", "e", "r", "b", "s">>,
    <<"E", "c", "c", "l", "e", "s", "i", "a", "s", "t", "e", "s">>,
    <<"S", "o", "n", "g", " ", "O", "f", " ", "S", "o", "l", "o", "m", "o", "n">>,
    <<"I", "s", "a", "i", "a", "h">>,
    <<"J", "e", "r", "e", "m", "i", "a", "h">>,
    <<"L", "a", "m", "e", "n", "t", "a", "t", "i", "o", "n", "s">>,
    <<"E", "z", "e", "k", "i", "e", "l">>,
    <<"D", "a", "n", "i", "e", "l">>,
    <<"H", "o", "s", "e", "a">>,
    <<"J", "o", "e", "l">>,
    <<"A", "m", "o", "s">>,
    <<"O", "b", "a", "d", "i", "a", "h">>,
    <<"J", "o", "n", "a", "h">>,
    <<"M", "i", "c", "a", "h">>,
    <<"N", "a", "h", "u", "m">>,
    <<"H", "a", "b", "a", "k", "k", "u", "k">>,
    <<"Z", "e", "p", "h", "a", "n", "i", "a", "h">>,
    <<"H", "a", "g", "g", "a", "i">>,
    <<"Z", "e", "c", "h", "a", "r", "i", "a", "h">>,
    <<"M", "a", "l", "a", "c", "h", "i">>,
    <<"M", "a", "t", "t", "h", "e", "w">>,
    <<"M", "a", "r", "k">>,
    <<"L", "u", "k", "e">>,
    <<"J", "o", "h", "n">>,
    <<"A", "c", "t", "s">>,
    <<"R", "o", "m", "a", "n", "s">>,
    <<"1", " ", "C", "o", "r", "i", "n", "t", "h", "i", "a", "n", "s">>,
    <<"2", " ", "C", "o", "r", "i", "n", "t", "h", "i", "a", "n", "s">>,
    <<"G", "a", "l", "a", "t", "i", "a", "n", "s">>,
    <<"E", "p", "h", "e", "s", "i", "a", "n", "s">>,
    <<"P", "h", "i", "l", "i", "p", "p", "i", "a", "n", "s">>,
    <<"C", "o", "l", "o", "s", "s", "i", "a", "n", "s">>,
    <<"1", " ", "T", "h", "e", "s", "s", "a", "l", "o", "n", "i", "a", "n", "s">>,
    <<"2", " ", "T", "h", "e", "s", "s", "a", "l", "o", "n", "i", "a", "n", "s">>,
    <<"1", " ", "T", "i", "m", "o", "t", "h", "y">>,
    <<"2", " ", "T", "i", "m", "o", "t", "h", "y">>,
    <<"T", "i", "t", "u", "s">>,
    <<"P", "h", "i", "l", "e", "m", "o", "n">>,
    <<"H", "e", "b", "r", "e", "w", "s">>,
    <<"J", "a", "m", "e", "s">>,
    <<"1", " ", "P", "e", "t", "e", "r">>,
    <<"2", " ", "P", "e", "t", "e", "r">>,
    <<"1", " ", "J", "o", "h", "n">>,
    <<"2", " ", "J", "o", "h", "n">>,
    <<"3", " ", "J", "o", "h", "n">>,
    <<"J", "u", "d", "e">>,
    <<"R", "e", "v", "e", "l", "a", "t", "i", "o", "n">>
>>

\* the cutset of cleanWord
Punctuation == {".", ",", ";", ":", "!", "?", "\"", "'", "(", ")", "[", "]"}

cleanWord(word) == Trim(word, Punctuation)

----------------------------------------------------------------------------
(* Go maps.  A map is a function; indexing a missing key yields the zero   *)
(* value of the element type, and a nil map has no keys.                   *)

NilMap == <<>>

MapGet(m, key, zero) == IF key \in DOMAIN m THEN m[key] ELSE zero

MapPut(m, key, value) ==
    [k \in (DOMAIN m) \cup {key} |-> IF k = key THEN value ELSE m[k]]

RECURSIVE SetToSeq(_)
\* the elements of a map's key set in one iteration order
SetToSeq(set) ==
    IF set = {} THEN <<>>
    ELSE LET x == CHOOSE y \in set : TRUE
         IN  <<x>> \o SetToSeq(set \ {x})

RECURSIVE InsertSorted(_, _)
InsertSorted(sorted, n) ==
    IF sorted = <<>> THEN <<n>>
    ELSE IF n < Head(sorted) THEN <<n>> \o sorted
    ELSE <<Head(sorted)>> \o InsertSorted(Tail(sorted), n)

RECURSIVE SortInts(_)
\* sort.Ints
SortInts(numbers) ==
    IF numbers = <<>> THEN <<>>
    ELSE InsertSorted(SortInts(Tail(numbers)), Head(numbers))

RECURSIVE ParsedKeys(_)
ParsedKeys(keys) ==
    IF keys = <<>> THEN <<>>
    ELSE IF Atoi(Head(keys)).ok
         THEN <<Atoi(Head(keys)).num>> \o ParsedKeys(Tail(keys))
         ELSE ParsedKeys(Tail(keys))

\* one number per key that parses (two keys that parse to the same number
\* give that number twice), sorted; the map's iteration order is lost in
\* the sort
sortMapKeysAsInts(m) == SortInts(ParsedKeys(SetToSeq(DOMAIN m)))

----------------------------------------------------------------------------
(* NewBibleData.                                                           *)

EmptyBibleData ==
    [verses |-> <<>>, bookList |-> <<>>, index |-> NilMap, chapterIndex |-> NilMap]

RECURSIVE KeepBooks(_, _)
KeepBooks(names, keep) ==
    IF names = <<>> THEN <<>>
    ELSE IF Head(names) \in keep
         THEN <<Head(names)>> \o KeepBooks(Tail(names), keep)
         ELSE KeepBooks(Tail(names), keep)

\* `rangeOrder` is the order in which `for bookName := range bible` yields
\* the keys of the map: Go leaves it unspecified and varies it per run
BookListOf(bible, rangeOrder) ==
    LET canonical == KeepBooks(biblicalOrder, DOMAIN bible)
        bookSet   == {canonical[i] : i \in 1..Len(canonical)}
    IN  canonical \o KeepBooks(rangeOrder, (DOMAIN bible) \ bookSet)

RECURSIVE IndexWords(_, _, _)
\* the loop over strings.Fields(strings.ToLower(text)): position `at` is
\* appended to the posting list of every cleaned word longer than
\* minWordLength, once per occurrence of the word
IndexWords(index, words, at) ==
    IF words = <<>> THEN index
    ELSE LET clean == cleanWord(Head(words))
         IN  IF Len(clean) > minWordLength
             THEN IndexWords(MapPut(index, clean,
                                    Append(MapGet(index, clean, <<>>), at)),
                             Tail(words), at)
             ELSE IndexWords(index, Tail(words), at)

\* the body of the innermost loop
AddVerse(b, verseObj) ==
    LET bookName   == verseObj.Book
        chapterNum == verseObj.Chapter
        verses     == Append(b.verses, verseObj)
        chapters   == MapGet(b.chapterIndex, bookName, NilMap)
    IN  [b EXCEPT
            !.verses = verses,
            !.chapterIndex =
                MapPut(b.chapterIndex, bookName,
                       MapPut(chapters, chapterNum,
                              Append(MapGet(chapters, chapterNum, <<>>), verseObj))),
            !.index = IndexWords(b.index, Fields(ToLower(verseObj.Text)),
                                 Len(verses) - 1)]

RECURSIVE LoopVerses(_, _, _, _, _)
LoopVerses(b, bookName, chapterNum, chapter, verseNums) ==
    IF verseNums = <<>> THEN b
    ELSE LET verseNum == Head(verseNums)
             text     == MapGet(chapter, Itoa(verseNum), <<>>)
         IN  LoopVerses(AddVerse(b, [Book |-> bookName, Chapter |-> chapterNum,
                                     Verse |-> verseNum, Text |-> text]),
                        bookName, chapterNum, chapter, Tail(verseNums))

RECURSIVE LoopChapters(_, _, _, _)
LoopChapters(b, bible, bookName, chapterNums) ==
    IF chapterNums = <<>> THEN b
    ELSE LET chapterNum == Head(chapterNums)
             chapter    == MapGet(bible[bookName], Itoa(chapterNum), NilMap)
         IN  LoopChapters(LoopVerses(b, bookName, chapterNum, chapter,
                                     sortMapKeysAsInts(chapter)),
                          bible, bookName, Tail(chapterNums))

RECURSIVE LoopBooks(_, _, _)
LoopBooks(b, bible, books) ==
    IF books = <<>> THEN b
    ELSE LoopBooks(LoopChapters(b, bible, Head(books),
                                sortMapKeysAsInts(bible[Head(books)])),
                   bible, Tail(books))

NewBibleData(bible, rangeOrder) ==
    LET bookList == BookListOf(bible, rangeOrder)
    IN  LoopBooks([EmptyBibleData EXCEPT !.bookList = bookList], bible, bookList)

GetBooks(b) == b.bookList

GetVerses(b, book, chapter) ==
    IF book \in DOMAIN b.chapterIndex
    THEN IF chapter \in DOMAIN b.chapterIndex[book]
         THEN b.chapterIndex[book][chapter]
         ELSE <<>>
    ELSE <<>>

----------------------------------------------------------------------------
(* The search engine.                                                      *)

RECURSIVE WordScan(_, _, _)
\* the loop over the words of the lower-cased text; i is the 0-based index
WordScan(words, patternLower, i) ==
    IF i >= Len(words) THEN [matches |-> FALSE, score |-> 1000000]
    ELSE LET cleaned == cleanWord(words[i + 1])
         IN  IF HasPrefix(cleaned, patternLower)
             THEN [matches |-> TRUE, score |-> 100 + i]
             ELSE IF Contains(cleaned, patternLower)
                  THEN [matches |-> TRUE, score |-> 500 + i]
                  ELSE WordScan(words, patternLower, i + 1)

\* fuzzyMatchAndScore with the bug of leaving out the substring test, so
\* that only the words of the text are tried
fuzzyMatchAndScoreWordsOnly(text, pattern) ==
    IF pattern = <<>> THEN [matches |-> TRUE, score |-> 1000000]
    ELSE WordScan(Fields(ToLower(text)), ToLower(pattern), 0)

\* fuzzyMatchAndScore with the bug of leaving the pattern in the letter case
\* it came in
fuzzyMatchAndScoreCaseSensitive(text, pattern) ==
    IF pattern = <<>> THEN [matches |-> TRUE, score |-> 1000000]
    ELSE LET textLower == ToLower(text)
             idx       == Index(textLower, pattern)
         IN  IF idx >= 0
             THEN [matches |-> TRUE, score |-> idx]
             ELSE WordScan(Fields(textLower), pattern, 0)

fuzzyMatchAndScore(text, pattern) ==
    IF pattern = <<>> THEN [matches |-> TRUE, score |-> 1000000]
    ELSE LET textLower    == ToLower(text)
             patternLower == ToLower(pattern)
             idx          == Index(textLower, patternLower)
         IN  IF idx >= 0
             THEN [matches |-> TRUE, score |-> idx]
             ELSE WordScan(Fields(textLower), patternLower, 0)

\* A Go slice: nil and empty-but-allocated differ, and the code tests for nil
NilSlice == [isNil |-> TRUE, elems |-> <<>>]

MakeSlice(elems) == [isNil |-> FALSE, elems |-> elems]

RECURSIVE IntersectScan(_, _, _, _, _)
\* i and j are the 0-based cursors; `result` stays nil until the first append
IntersectScan(a, b, i, j, result) ==
    IF i < Len(a) /\ j < Len(b)
    THEN IF a[i + 1] = b[j + 1]
         THEN IntersectScan(a, b, i + 1, j + 1,
                            MakeSlice(Append(result.elems, a[i + 1])))
         ELSE IF a[i + 1] < b[j + 1]
              THEN IntersectScan(a, b, i + 1, j, result)
              ELSE IntersectScan(a, b, i, j + 1, result)
    ELSE result

\* the first list handed back whatever the second holds
intersectKeepsFirst(a, b) == IF a = <<>> THEN NilSlice ELSE MakeSlice(a)

intersect(a, b) == IntersectScan(a, b, 0, 0, NilSlice)

RECURSIVE InsertByScore(_, _)
\* one pass of the insertion sort: m goes behind every entry whose score is
\* not greater than its own
InsertByScore(sorted, m) ==
    IF sorted = <<>> THEN <<m>>
    ELSE IF m.score < sorted[Len(sorted)].score
         THEN Append(InsertByScore(SubSeq(sorted, 1, Len(sorted) - 1), m),
                     sorted[Len(sorted)])
         ELSE Append(sorted, m)

RECURSIVE SortByScore(_)
\* sort.Slice with less = (score_i < score_j).  Below 12 elements Go's
\* sort.Slice is an insertion sort, so equal scores keep their input order.
SortByScore(matches) ==
    IF matches = <<>> THEN <<>>
    ELSE InsertByScore(SortByScore(SubSeq(matches, 1, Len(matches) - 1)),
                       matches[Len(matches)])

sortAndExtractVerses(matches) ==
    LET sorted == SortByScore(matches)
    IN  [i \in 1..Len(sorted) |-> sorted[i].verse]

RECURSIVE FindBookScanLast(_, _)
\* findBook with the bug of keeping the last book that matches, not the first
FindBookScanLast(books, bookNameLower) ==
    IF books = <<>> THEN <<>>
    ELSE LET bookLower == ToLower(books[Len(books)])
         IN  IF bookLower = bookNameLower \/ HasPrefix(bookLower, bookNameLower)
             THEN books[Len(books)]
             ELSE FindBookScanLast(SubSeq(books, 1, Len(books) - 1), bookNameLower)

RECURSIVE FindBookScan(_, _)
FindBookScan(books, bookNameLower) ==
    IF books = <<>> THEN <<>>
    ELSE LET bookLower == ToLower(Head(books))
         IN  IF bookLower = bookNameLower \/ HasPrefix(bookLower, bookNameLower)
             THEN Head(books)
             ELSE FindBookScan(Tail(books), bookNameLower)

\* the empty string when no book matches
findBook(b, bookName) == FindBookScan(b.bookList, ToLower(bookName))

RECURSIVE ScoreVerses(_, _)
\* the scoring loop shared by searchInBook, scoreAndSortCandidates and
\* fullTextSearch: one scoredVerse per verse that matches, in loop order
ScoreVerses(verses, pattern) ==
    IF verses = <<>> THEN <<>>
    ELSE LET m == fuzzyMatchAndScore(Head(verses).Text, pattern)
         IN  (IF m.matches
              THEN <<[verse |-> Head(verses), score |-> m.score]>>
              ELSE <<>>) \o ScoreVerses(Tail(verses), pattern)

RECURSIVE VersesOfBook(_, _)
VersesOfBook(verses, bookName) ==
    IF verses = <<>> THEN <<>>
    ELSE (IF Head(verses).Book = bookName THEN <<Head(verses)>> ELSE <<>>)
         \o VersesOfBook(Tail(verses), bookName)

\* searchInBook with the bug of leaving out the test verse.Book == bookName
searchInBookAnyBook(b, bookName, searchTerm) ==
    sortAndExtractVerses(ScoreVerses(b.verses, searchTerm))

searchInBook(b, bookName, searchTerm) ==
    sortAndExtractVerses(ScoreVerses(VersesOfBook(b.verses, bookName), searchTerm))

RECURSIVE CandidateScanSkipsMissing(_, _, _)
\* the loop of getCandidateIndices with the bug of passing over a word that
\* has no posting list
CandidateScanSkipsMissing(b, words, candidates) ==
    IF words = <<>> THEN candidates
    ELSE LET clean == cleanWord(Head(words))
         IN  IF Len(clean) > minSearchLength /\ clean \in DOMAIN b.index
             THEN IF candidates.isNil
                  THEN CandidateScanSkipsMissing(b, Tail(words),
                                                 MakeSlice(b.index[clean]))
                  ELSE CandidateScanSkipsMissing(b, Tail(words),
                                                 intersect(candidates.elems, b.index[clean]))
             ELSE CandidateScanSkipsMissing(b, Tail(words), candidates)

RECURSIVE CandidateScan(_, _, _)
CandidateScan(b, words, candidates) ==
    IF words = <<>> THEN candidates
    ELSE LET clean == cleanWord(Head(words))
         IN  IF Len(clean) > minSearchLength
             THEN IF clean \in DOMAIN b.index
                  THEN IF candidates.isNil
                       THEN CandidateScan(b, Tail(words), MakeSlice(b.index[clean]))
                       ELSE CandidateScan(b, Tail(words),
                                          intersect(candidates.elems, b.index[clean]))
                  ELSE NilSlice
             ELSE CandidateScan(b, Tail(words), candidates)

\* getCandidateIndices with the bug of starting from an empty slice that is
\* not nil
getCandidateIndicesFromEmpty(b, words) == CandidateScan(b, words, MakeSlice(<<>>))

getCandidateIndices(b, words) == CandidateScan(b, words, NilSlice)

scoreAndSortCandidates(b, candidates, query) ==
    sortAndExtractVerses(
        ScoreVerses([i \in 1..Len(candidates) |-> b.verses[candidates[i] + 1]], query))

fullTextSearch(b, query) == sortAndExtractVerses(ScoreVerses(b.verses, query))

RECURSIVE ReferenceScanNoVerse(_, _, _, _)
\* the loop of searchByReference with the bug of leaving out the verse filter
ReferenceScanNoVerse(verses, matchedBook, chapterNum, verseNum) ==
    IF verses = <<>> THEN <<>>
    ELSE LET verse == Head(verses)
             keep  == /\ verse.Book = matchedBook
                      /\ ~(chapterNum > 0 /\ verse.Chapter # chapterNum)
         IN  (IF keep THEN <<verse>> ELSE <<>>)
             \o ReferenceScanNoVerse(Tail(verses), matchedBook, chapterNum, verseNum)

RECURSIVE ReferenceScan(_, _, _, _)
ReferenceScan(verses, matchedBook, chapterNum, verseNum) ==
    IF verses = <<>> THEN <<>>
    ELSE LET verse == Head(verses)
             keep  == /\ verse.Book = matchedBook
                      /\ ~(chapterNum > 0 /\ verse.Chapter # chapterNum)
                      /\ ~(verseNum > 0 /\ verse.Verse # verseNum)
         IN  (IF keep THEN <<verse>> ELSE <<>>)
             \o ReferenceScan(Tail(verses), matchedBook, chapterNum, verseNum)

searchByReference(b, rawQuery) ==
    LET query       == TrimSpace(rawQuery)
        parts       == Split(query, ":")
        bookChapter == IF Len(parts) = 2 THEN TrimSpace(parts[1]) ELSE query
        verseNum    == IF Len(parts) = 2
                       THEN IF Atoi(TrimSpace(parts[2])).ok
                            THEN Atoi(TrimSpace(parts[2])).num
                            ELSE 0
                       ELSE -1
        words       == Fields(bookChapter)
    IN  IF Len(words) = 0 THEN <<>>
        ELSE LET lastWord   == words[Len(words)]
                 isChapter  == Atoi(lastWord).ok /\ Atoi(lastWord).num > 0
                 chapterNum == IF isChapter THEN Atoi(lastWord).num ELSE -1
                 bookName   == IF isChapter
                               THEN Join(SubSeq(words, 1, Len(words) - 1), <<" ">>)
                               ELSE Join(words, <<" ">>)
             IN  IF bookName = <<>> THEN <<>>
                 ELSE LET matchedBook == findBook(b, bookName)
                      IN  IF matchedBook = <<>> THEN <<>>
                          ELSE ReferenceScan(b.verses, matchedBook,
                                             chapterNum, verseNum)

\* the book-scoped step of Search: the result of searchInBook when the query
\* has two or more words and all but the last resolve to a book, else nothing
BookScoped(b, query) ==
    LET parts == Fields(query)
    IN  IF Len(parts) >= 2
        THEN LET bookName    == Join(SubSeq(parts, 1, Len(parts) - 1), <<" ">>)
                 searchTerm  == parts[Len(parts)]
                 matchedBook == findBook(b, bookName)
             IN  IF matchedBook # <<>>
                 THEN searchInBook(b, matchedBook, searchTerm)
                 ELSE <<>>
        ELSE <<>>

\* Search with the bug of leaving out the test query == ""
SearchViaNoEmptyTest(b, query) ==
    IF Len(searchByReference(b, query)) > 0
    THEN [via |-> "reference", verses |-> searchByReference(b, query)]
    ELSE IF Len(BookScoped(b, query)) > 0
    THEN [via |-> "book", verses |-> BookScoped(b, query)]
    ELSE LET words      == Fields(ToLower(query))
             candidates == getCandidateIndices(b, words)
         IN  IF ~candidates.isNil
             THEN [via |-> "index",
                   verses |-> scoreAndSortCandidates(b, candidates.elems, query)]
             ELSE [via |-> "scan", verses |-> fullTextSearch(b, query)]

\* Search, with the return statement that produced the result
SearchVia(b, query) ==
    IF query = <<>> THEN [via |-> "empty", verses |-> <<>>]
    ELSE IF Len(searchByReference(b, query)) > 0
    THEN [via |-> "reference", verses |-> searchByReference(b, query)]
    ELSE IF Len(BookScoped(b, query)) > 0
    THEN [via |-> "book", verses |-> BookScoped(b, query)]
    ELSE LET words      == Fields(ToLower(query))
             candidates == getCandidateIndices(b, words)
         IN  IF ~candidates.isNil
             THEN [via |-> "index",
                   verses |-> scoreAndSortCandidates(b, candidates.elems, query)]
             ELSE [via |-> "scan", verses |-> fullTextSearch(b, query)]

Search(b, query) == SearchVia(b, query).verses


----------------------------------------------------------------------------
(***************************************************************************)
(* The translation registry: MultiBibleData caches one *BibleData per      *)
(* translation name.  A *BibleData is a pointer, so a constructed corpus   *)
(* is named by the translation and the serial number of its construction:  *)
(* two constructions of one translation are two different pairs.           *)
(***************************************************************************)

MaxCallers == 2     \* callers of GetCurrentBibleData

Callers == 1..MaxCallers

ESV == <<"E", "S", "V">>
KJV == <<"K", "J", "V">>
NIV == <<"N", "I", "V">>

\* translations that have a file <name>_bible.json in the directory
FilePool == {ESV, KJV}

\* names a caller asks for; there is no file for NIV
RequestNames == {ESV, KJV, NIV}

\* os.ReadFile fails on an unreadable file, NewBibleData on a corrupt one
FileStates == {"good", "unreadable", "corrupt"}

RuneRank(c) == CHOOSE i \in 1..Len(UpperRunes) : UpperRunes[i] = c

RECURSIVE StringLess(_, _)
\* the order of sort.Strings, on names of upper-case letters
StringLess(a, b) ==
    IF b = <<>> THEN FALSE
    ELSE IF a = <<>> THEN TRUE
    ELSE IF a[1] = b[1] THEN StringLess(Tail(a), Tail(b))
    ELSE RuneRank(a[1]) < RuneRank(b[1])

RECURSIVE SortStrings(_)
\* sort.Strings on the names found in the directory
SortStrings(names) ==
    IF names = {} THEN <<>>
    ELSE LET least == CHOOSE n \in names : \A o \in names \ {n} : StringLess(n, o)
         IN  <<least>> \o SortStrings(names \ {least})

FilePath(transName) == transName \o <<"_", "b", "i", "b", "l", "e", ".", "j", "s", "o", "n">>

\* NewMultiBibleData: nothing is loaded; the names are sorted
NewMultiBibleData(files) ==
    [translations     |-> NilMap,
     translationNames |-> SortStrings(files),
     filePaths        |-> [n \in files |-> FilePath(n)]]

\* the nil *BibleData
NilBibleData == [translation |-> <<>>, serial |-> 0]

\* the cache test with the bug of never finding an entry
CachedNever(reg, translation) == FALSE

\* the cache has an entry for the name
Cached(reg, translation) == translation \in DOMAIN reg.translations

\* a caller that is not inside GetCurrentBibleData
IdleCaller ==
    [pc |-> "idle", requested |-> <<>>, translation |-> <<>>,
     bd |-> NilBibleData, result |-> NilBibleData,
     hit |-> FALSE, reads |-> 0, builds |-> 0]

NoHistory == [constructed |-> [n \in FilePool |-> 0], resolved |-> {}]

\* the registry takes no part in the behaviours of the corpus
RegistryUnused ==
    /\ mbd = NewMultiBibleData({})
    /\ disk = <<>>
    /\ callers = [g \in Callers |-> IdleCaller]
    /\ hist = NoHistory

\* the state.json of a first start: there is no file
NoState ==
    [CurrentTranslation |-> <<>>, CurrentBook |-> <<>>, CurrentChapter |-> 0,
     Selected |-> 0, ScrollOffset |-> 0, exists |-> FALSE]

NoModel ==
    [currentTranslation |-> <<>>, currentBook |-> <<>>, currentChapter |-> 0,
     verses |-> <<>>, searchQuery |-> <<>>, searchResults |-> <<>>,
     mode |-> "navigationMode", selected |-> 0, scrollOffset |-> 0,
     height |-> 0, width |-> 0, zenMode |-> FALSE, panicked |-> FALSE]

\* the UI takes no part in the behaviours of the corpus and of the registry
UIUnused ==
    /\ model = NoModel
    /\ cmd = "nil"
    /\ stateFile = NoState
----------------------------------------------------------------------------
(* Inputs: the source documents and the arguments of the calls.            *)

MaxBooks == 3       \* books in a document of OrderDocs
MaxChapters == 2    \* chapter keys per book in a document of KeyDocs
MaxVerses == 2      \* verse keys per chapter in a document of KeyDocs
MaxTokens == 3      \* tokens in a list handed to getCandidateIndices

Genesis == <<"G", "e", "n", "e", "s", "i", "s">>
John == <<"J", "o", "h", "n">>
Jude == <<"J", "u", "d", "e">>
FirstJohn == <<"1", " ", "J", "o", "h", "n">>
Enoch == <<"E", "n", "o", "c", "h">>
Tobit == <<"T", "o", "b", "i", "t">>

\* four books of biblicalOrder and two names that are not in it
BookPool == {Genesis, John, Jude, FirstJohn, Enoch, Tobit}

\* keys of a chapter map or verse map: numbers, a number with a leading
\* zero, a negative number, and a key that is no number
KeyPool == {<<"1">>, <<"2">>, <<"1", "0">>, <<"0", "1">>, <<"-", "1">>, <<"x">>}

TextPool == {
    <<"I", "n", " ", "t", "h", "e", " ", "b", "e", "g", "i", "n", "n", "i", "n", "g">>,
    <<"A", "n", "d", " ", "t", "h", "e", " ", "e", "a", "r", "t", "h", " ", "w", "a", "s", " ", "f", "o", "r", "m", "l", "e", "s", "s">>,
    <<"s", "o", "n", " ", "g", "o", "d">>,
    <<"G", "o", "d", " ", "s", "o", "n", "s", ".">>,
    <<"g", "o", "d", " ", "s", "o", "n">>,
    <<"H", "o", "l", "y", ",", " ", "h", "o", "l", "y", ",", " ", "h", "o", "l", "y">> }

IsInjective(s) == \A i, j \in 1..Len(s) : s[i] = s[j] => i = j

Range(s) == {s[i] : i \in 1..Len(s)}

\* the top-level keys of a document, in the order the document lists them
BookOrders(pool, max) ==
    {s \in UNION {[1..n -> pool] : n \in 1..max} : IsInjective(s)}

KeySets(max) == {ks \in SUBSET KeyPool : Cardinality(ks) \in 1..max}

KeyText(chapterKey, verseKey) == <<"c", "h">> \o chapterKey \o <<" ", "v", "s">> \o verseKey

\* documents that vary the books and their order; one verse per book
OrderDocs ==
    {[order |-> names,
      bible |-> [bk \in Range(names) |-> [ck \in {<<"1">>} |-> [vk \in {<<"1">>} |-> bk \o <<" ", "t", "e", "x", "t">>]]]] :
        names \in BookOrders(BookPool, MaxBooks)}

\* documents that vary the chapter keys and the verse keys; the document
\* lists John before Genesis
KeyDocs ==
    {[order |-> names,
      bible |-> [bk \in Range(names) |-> [ck \in cks |-> [vk \in vks |-> KeyText(ck, vk)]]]] :
        names \in {<<John, Genesis>>},
        cks \in KeySets(MaxChapters),
        vks \in KeySets(MaxVerses)}

\* documents that vary the verse texts: two verses in Genesis, and one in
\* John when John is present
TextDocs ==
    {[order |-> <<Genesis>>,
      bible |-> [bk \in {Genesis} |-> [ck \in {<<"1">>} |->
                    [vk \in {<<"1">>, <<"2">>} |-> IF vk = <<"1">> THEN t1 ELSE t2]]]] :
        t1 \in TextPool, t2 \in TextPool}
    \cup
    {[order |-> <<Genesis, John>>,
      bible |-> [bk \in {Genesis, John} |-> [ck \in {<<"1">>} |->
                    IF bk = Genesis
                    THEN [vk \in {<<"1">>, <<"2">>} |-> IF vk = <<"1">> THEN t1 ELSE t2]
                    ELSE [vk \in {<<"1">>} |-> t3]]]] :
        t1 \in TextPool, t2 \in TextPool, t3 \in TextPool}

Documents == OrderDocs \cup KeyDocs \cup TextDocs

\* an optional part of a reference query
Absent == [has |-> FALSE, tok |-> <<>>]
Given(tok) == [has |-> TRUE, tok |-> tok]

BookParts == {<<"G", "e", "n", "e", "s", "i", "s">>, <<"g", "e", "n">>, <<"J">>, <<"1", " ", "j", "o", "h", "n">>, <<"x">>}
ChapterParts == {Absent, Given(<<"1">>), Given(<<"1", "0">>), Given(<<"0">>)}
VerseParts == {Absent, Given(<<"2">>), Given(<<"0", "1">>), Given(<<"x">>)}
SearchTerms == {<<"g", "o", "d">>, <<"S", "O", "N">>, <<"t", "e", "x", "t">>}

\* <book> [<chapter>][:<verse>]
RefQuery(bookPart, chapterPart, versePart) ==
    bookPart
    \o (IF chapterPart.has THEN <<" ">> \o chapterPart.tok ELSE <<>>)
    \o (IF versePart.has THEN <<":">> \o versePart.tok ELSE <<>>)

RefQueriesOf(bookParts) ==
    {RefQuery(bp, cp, vp) : bp \in bookParts, cp \in ChapterParts, vp \in VerseParts}

RefQueries == RefQueriesOf(BookParts)

\* <book> <search term>
BookTermQuery(bookPart, term) == bookPart \o <<" ">> \o term

BookTermQueries == {BookTermQuery(bp, t) : bp \in BookParts, t \in SearchTerms}

KeywordQueries == {
    <<>>,
    <<"b", "e", "g", "i", "n", "n", "i", "n", "g">>,
    <<"h", "o", "l", "y">>,
    <<"g", "o", "d", " ", "s", "o", "n">>,
    <<"s", "o", "n", " ", "g", "o", "d">>,
    <<"e", "a", "r", "t", "h">>,
    <<"i", "s", " ", "a">>,
    <<"t", "h", "e", " ", "e", "a", "r", "t", "h">>,
    <<"t", "h", "e", " ", "b", "e", "g", "i", "n">>,
    <<"h", "e">>,
    <<"t", "e", "x", "t">> }

Queries == KeywordQueries \cup BookTermQueries \cup RefQueriesOf({<<"g", "e", "n">>, <<"x">>})

BookNames == BookParts \cup BookPool \cup {<<>>, <<"j", "o">>, <<"G", "E", "N", "E", "S", "I", "S">>, <<"1">>}

ChapterNumbers == {1, 2, 3, 10}

\* lower-cased query tokens: words of the texts, one with punctuation, and
\* one that is too short for the index
TokenPool == {<<"t", "h", "e">>, <<"b", "e", "g", "i", "n", "n", "i", "n", "g">>, <<"e", "a", "r", "t", "h", ",">>, <<"i", "n">>}

\* token lists without repetition, as strings.Fields yields them
TokenLists == BookOrders(TokenPool, MaxTokens)

\* patterns handed to fuzzyMatchAndScore: the empty one, whole words, the
\* beginning, the middle and the end of a word, pieces that run over a
\* space or a punctuation mark, other letter case, and words of no text
Patterns == {
    <<>>,
    <<"g", "o", "d">>,
    <<"G", "O", "D">>,
    <<"s", "o">>,
    <<"o", "n">>,
    <<"s", "o", "n", "s">>,
    <<"s", "o", "n", "s", ".">>,
    <<"o", "d", " ", "s">>,
    <<"n", " ", "g">>,
    <<"h", "o", "l", "y">>,
    <<"l", "y", ",", " ", "h">>,
    <<"y", ",">>,
    <<"t", "h", "e">>,
    <<"h", "e">>,
    <<"I", "n">>,
    <<"e", "a", "r">>,
    <<"w", "a", "s", " ", "f", "o", "r", "m">>,
    <<"b", "e", "g", "i", "n", "n", "i", "n", "g">>,
    <<"g", "o", "d", " ", " ", "s", "o", "n">>,
    <<"g", "o", "d", "s">>,
    <<"x">> }

----------------------------------------------------------------------------
(***************************************************************************)
(* The state machine: a document is loaded, and the caller makes one call  *)
(* at a time on the read-only query surface of the loaded corpus: every    *)
(* operation runs to completion on the caller's thread, and the caller     *)
(* takes the result before it makes the next call.                         *)
(***************************************************************************)

\* a call record and a result record have the same fields in every state;
\* an operation fills the fields it uses
Call(op) == [op |-> op, query |-> <<>>, book |-> <<>>, chapter |-> 0, words |-> <<>>,
             text |-> <<>>, pattern |-> <<>>, a |-> <<>>, b |-> <<>>]

NoResult == [via |-> "", verses |-> <<>>, books |-> <<>>, book |-> <<>>,
             candidates |-> NilSlice, matches |-> FALSE, score |-> 0]

Init ==
    /\ doc \in Documents
    /\ bd = EmptyBibleData
    /\ call = Call("start")
    /\ res = NoResult
    /\ RegistryUnused
    /\ UIUnused

Idle == call.op = "idle"

\* NewBibleData(jsonData); the same document can be loaded again
Load ==
    /\ call.op \in {"start", "idle"}
    /\ \E rangeOrder \in BookOrders(DOMAIN doc.bible, Cardinality(DOMAIN doc.bible)) :
          /\ Len(rangeOrder) = Cardinality(DOMAIN doc.bible)
          /\ bd' = NewBibleData(doc.bible, rangeOrder)
    /\ call' = Call("NewBibleData")
    /\ res' = NoResult
    /\ UNCHANGED <<doc, registryVars, uiVars>>

CallGetBooks ==
    /\ Idle
    /\ call' = Call("GetBooks")
    /\ res' = [NoResult EXCEPT !.books = GetBooks(bd)]
    /\ UNCHANGED <<doc, bd, registryVars, uiVars>>

CallGetVerses ==
    /\ Idle
    /\ \E book \in BookPool \cup {<<"g", "e", "n", "e", "s", "i", "s">>}, chapter \in ChapterNumbers :
          /\ call' = [Call("GetVerses") EXCEPT !.book = book, !.chapter = chapter]
          /\ res' = [NoResult EXCEPT !.verses = GetVerses(bd, book, chapter)]
    /\ UNCHANGED <<doc, bd, registryVars, uiVars>>

CallFindBook ==
    /\ Idle
    /\ \E bookName \in BookNames :
          /\ call' = [Call("findBook") EXCEPT !.book = bookName]
          /\ res' = [NoResult EXCEPT !.book = findBook(bd, bookName)]
    /\ UNCHANGED <<doc, bd, registryVars, uiVars>>

CallSearchByReference ==
    /\ Idle
    /\ \E query \in RefQueries :
          /\ call' = [Call("searchByReference") EXCEPT !.query = query]
          /\ res' = [NoResult EXCEPT !.verses = searchByReference(bd, query)]
    /\ UNCHANGED <<doc, bd, registryVars, uiVars>>

CallSearch ==
    /\ Idle
    /\ \E query \in Queries :
          /\ call' = [Call("Search") EXCEPT !.query = query]
          /\ res' = [NoResult EXCEPT !.via = SearchVia(bd, query).via,
                                     !.verses = SearchVia(bd, query).verses]
    /\ UNCHANGED <<doc, bd, registryVars, uiVars>>

CallGetCandidateIndices ==
    /\ Idle
    /\ \E words \in TokenLists :
          /\ call' = [Call("getCandidateIndices") EXCEPT !.words = words]
          /\ res' = [NoResult EXCEPT !.candidates = getCandidateIndices(bd, words)]
    /\ UNCHANGED <<doc, bd, registryVars, uiVars>>

\* fuzzyMatchAndScore(verse.Text, pattern) on a verse of the corpus
CallFuzzyMatchAndScore ==
    /\ Idle
    /\ \E p \in 1..Len(bd.verses), pattern \in Patterns :
          LET scored == fuzzyMatchAndScore(bd.verses[p].Text, pattern)
          IN  /\ call' = [Call("fuzzyMatchAndScore") EXCEPT !.text = bd.verses[p].Text,
                                                          !.pattern = pattern]
              /\ res' = [NoResult EXCEPT !.matches = scored.matches,
                                         !.score = scored.score]
    /\ UNCHANGED <<doc, bd, registryVars, uiVars>>

\* the caller has taken the result
Return ==
    /\ call.op \notin {"start", "idle"}
    /\ call' = Call("idle")
    /\ res' = NoResult
    /\ UNCHANGED <<doc, bd, registryVars, uiVars>>

Next ==
    \/ Load
    \/ CallGetBooks
    \/ CallGetVerses
    \/ CallFindBook
    \/ CallSearchByReference
    \/ CallSearch
    \/ CallGetCandidateIndices
    \/ CallFuzzyMatchAndScore
    \/ Return

Spec == Init /\ [][Next]_vars


----------------------------------------------------------------------------
(***************************************************************************)
(* GetCurrentBibleData, statement by statement: a caller is at one of the  *)
(* statements of the method, of loadTranslation or of                      *)
(* getFallbackTranslation.  The method takes no lock.                      *)
(***************************************************************************)

NoDocument == [order |-> <<>>, bible |-> NilMap]

\* the corpus takes no part in the behaviours of the registry
CorpusUnused ==
    /\ doc = NoDocument
    /\ bd = EmptyBibleData
    /\ call = Call("start")
    /\ res = NoResult

RegistryInit ==
    /\ CorpusUnused
    /\ \E files \in (SUBSET FilePool) \ {{}} :
          /\ mbd = NewMultiBibleData(files)
          /\ disk \in [{FilePath(n) : n \in files} -> FileStates]
    /\ callers = [g \in Callers |-> IdleCaller]
    /\ hist = NoHistory
    /\ UIUnused

At(g, pc) == callers[g].pc = pc

Goto(g, pc) == callers' = [callers EXCEPT ![g].pc = pc]

\* a caller enters GetCurrentBibleData(translation)
CallGetCurrentBibleData(g) ==
    /\ At(g, "idle")
    /\ \E translation \in RequestNames :
          callers' = [callers EXCEPT ![g] =
                         [IdleCaller EXCEPT !.pc = "lookup",
                                            !.requested = translation,
                                            !.translation = translation,
                                            !.hit = Cached(mbd, translation)]]
    /\ UNCHANGED <<corpusVars, uiVars, mbd, disk, hist>>

\* the program as it is: the next call starts when the last one has returned
CallInTurn(g) ==
    /\ \A h \in Callers : At(h, "idle")
    /\ CallGetCurrentBibleData(g)

\* if bd, exists := mbd.translations[translation]; exists { return bd }
CheckCache(g) ==
    /\ At(g, "lookup")
    /\ callers' = [callers EXCEPT ![g] =
                      IF Cached(mbd, callers[g].translation)
                      THEN [@ EXCEPT !.pc = "done",
                                     !.result = mbd.translations[callers[g].translation]]
                      ELSE [@ EXCEPT !.pc = "path"]]
    /\ UNCHANGED <<corpusVars, uiVars, mbd, disk, hist>>

\* if filePath, exists := mbd.filePaths[translation]; exists
CheckFilePath(g) ==
    /\ At(g, "path")
    /\ Goto(g, IF callers[g].translation \in DOMAIN mbd.filePaths
               THEN "read" ELSE "fallback")
    /\ UNCHANGED <<corpusVars, uiVars, mbd, disk, hist>>

\* loadTranslation: os.ReadFile(filePath)
ReadFile(g) ==
    /\ At(g, "read")
    /\ callers' = [callers EXCEPT ![g] =
                      [@ EXCEPT !.reads = @ + 1,
                                !.pc = IF disk[mbd.filePaths[callers[g].translation]]
                                            = "unreadable"
                                       THEN "fallback" ELSE "build"]]
    /\ UNCHANGED <<corpusVars, uiVars, mbd, disk, hist>>

\* loadTranslation: NewBibleData(data); a new *BibleData when data is valid
loadTranslation(g) ==
    /\ At(g, "build")
    /\ LET translation == callers[g].translation
       IN  IF disk[mbd.filePaths[translation]] = "corrupt"
           THEN /\ Goto(g, "fallback")
                /\ UNCHANGED hist
           ELSE /\ callers' = [callers EXCEPT ![g] =
                                  [@ EXCEPT !.pc = "store",
                                            !.builds = @ + 1,
                                            !.bd = [translation |-> translation,
                                                    serial |-> hist.constructed[translation] + 1]]]
                /\ hist' = [hist EXCEPT !.constructed[translation] = @ + 1]
    /\ UNCHANGED <<corpusVars, uiVars, mbd, disk>>

\* mbd.translations[translation] = bd: the map write begins
StoreBegin(g) ==
    /\ At(g, "store")
    /\ Goto(g, "storing")
    /\ UNCHANGED <<corpusVars, uiVars, mbd, disk, hist>>

\* the map write ends; return bd
StoreEnd(g) ==
    /\ At(g, "storing")
    /\ mbd' = [mbd EXCEPT !.translations =
                   MapPut(@, callers[g].translation, callers[g].bd)]
    /\ callers' = [callers EXCEPT ![g] = [@ EXCEPT !.pc = "done", !.result = callers[g].bd]]
    /\ UNCHANGED <<corpusVars, uiVars, disk, hist>>

\* getFallbackTranslation: the first name, unless it is the one that failed
getFallbackTranslation(g) ==
    /\ At(g, "fallback")
    /\ callers' = [callers EXCEPT ![g] =
                      IF /\ Len(mbd.translationNames) > 0
                         /\ mbd.translationNames[1] # callers[g].translation
                      THEN [@ EXCEPT !.pc = "lookup",
                                     !.translation = mbd.translationNames[1]]
                      ELSE [@ EXCEPT !.pc = "done", !.result = NilBibleData]]
    /\ UNCHANGED <<corpusVars, uiVars, mbd, disk, hist>>

\* the caller has the result
ReturnBibleData(g) ==
    /\ At(g, "done")
    /\ callers' = [callers EXCEPT ![g] = IdleCaller]
    /\ hist' = [hist EXCEPT !.resolved =
                    @ \cup {callers[g].requested, callers[g].translation}]
    /\ UNCHANGED <<corpusVars, uiVars, mbd, disk>>

\* a map access while another goroutine writes the map is a data race; the
\* Go runtime may detect it and end the process ("concurrent map writes",
\* "concurrent map read and map write"), or the access may go through
Fatal(g) ==
    /\ callers[g].pc \in {"lookup", "store"}
    /\ \E h \in Callers \ {g} : At(h, "storing")
    /\ callers' = [h \in Callers |-> [callers[h] EXCEPT !.pc = "crashed"]]
    /\ UNCHANGED <<corpusVars, uiVars, mbd, disk, hist>>

Steps(g) ==
    \/ CheckCache(g)
    \/ CheckFilePath(g)
    \/ ReadFile(g)
    \/ loadTranslation(g)
    \/ StoreBegin(g)
    \/ StoreEnd(g)
    \/ getFallbackTranslation(g)
    \/ ReturnBibleData(g)

RegistryNext == \E g \in Callers : CallInTurn(g) \/ Steps(g)

\* the calls come one after the other, as in the program
RegistrySpec == RegistryInit /\ [][RegistryNext]_vars

ConcurrentNext == \E g \in Callers : CallGetCurrentBibleData(g) \/ Steps(g) \/ Fatal(g)

\* the callers are goroutines that run GetCurrentBibleData at the same time
ConcurrentSpec == RegistryInit /\ [][ConcurrentNext]_vars

----------------------------------------------------------------------------
(***************************************************************************)
(* The terminal UI: the model and the helpers of its Update method.  A     *)
(* method with a pointer receiver is an operator from the model to the     *)
(* changed model.  The field `panicked` is not a field of the Go struct:   *)
(* it records that the handler hit a run-time panic (an index out of       *)
(* range), which ends the program.                                         *)
(***************************************************************************)

MaxQueryLen == 2    \* characters typed into the search query

navigationMode == "navigationMode"
searchMode == "searchMode"

verseTextPadding == 6

Max(a, b) == IF a >= b THEN a ELSE b
Min(a, b) == IF a <= b THEN a ELSE b

\* the verses of a chapter, keyed "1", "2", ... in the order of the texts
VerseMap(texts) == [vk \in {Itoa(i) : i \in 1..Len(texts)} |-> texts[Atoi(vk).num]]

\* ESV documents: a regular one, and one whose chapters have gaps (Genesis
\* has no chapter 2, John has no chapter 1)
UIRegular ==
    [order |-> <<Genesis, John>>,
     bible |-> [bk \in {Genesis, John} |->
                   IF bk = Genesis
                   THEN [ck \in {<<"1">>, <<"2">>} |->
                            IF ck = <<"1">>
                            THEN VerseMap(<<<<"I", "n", " ", "t", "h", "e", " ", "b", "e", "g", "i", "n", "n", "i", "n", "g">>,
                                            <<"A", "n", "d", " ", "t", "h", "e", " ", "e", "a", "r", "t", "h", " ", "w", "a", "s", " ", "f", "o", "r", "m", "l", "e", "s", "s">>>>)
                            ELSE VerseMap(<<<<"g", "o", "d", " ", "s", "o", "n">>>>)]
                   ELSE [ck \in {<<"1">>} |-> VerseMap(<<<<"s", "o", "n", " ", "g", "o", "d">>, <<"G", "o", "d", " ", "s", "o", "n", "s", ".">>>>)]]]

UIGaps ==
    [order |-> <<Genesis, John>>,
     bible |-> [bk \in {Genesis, John} |->
                   IF bk = Genesis
                   THEN [ck \in {<<"1">>, <<"3">>} |->
                            IF ck = <<"1">>
                            THEN VerseMap(<<<<"I", "n", " ", "t", "h", "e", " ", "b", "e", "g", "i", "n", "n", "i", "n", "g">>>>)
                            ELSE VerseMap(<<<<"g", "o", "d", " ", "s", "o", "n">>>>)]
                   ELSE [ck \in {<<"2">>} |-> VerseMap(<<<<"s", "o", "n", " ", "g", "o", "d">>>>)]]]

UIDocuments == {UIRegular, UIGaps}

\* the KJV file: one book, one chapter of three verses
KJVBible ==
    [bk \in {Genesis} |-> [ck \in {<<"1">>} |->
        VerseMap(<<<<"I", "n", " ", "t", "h", "e", " ", "b", "e", "g", "i", "n", "n", "i", "n", "g">>, <<"g", "o", "d", " ", "s", "o", "n">>, <<"s", "o", "n", " ", "g", "o", "d">>>>)]]

\* multiBibleData.translationNames
UITranslationNames == <<ESV, KJV>>

\* m.getBibleData(): both files are readable, so GetCurrentBibleData returns
\* the corpus of the named translation, from the file or from the cache
\* the corpus of the KJV file
KJVData == NewBibleData(KJVBible, <<Genesis>>)

BibleDataOf(translation) == IF translation = ESV THEN bd ELSE KJVData

getBibleData(m) == BibleDataOf(m.currentTranslation)

RECURSIVE WrapScan(_, _, _, _)
\* the loop of wrapVerseText over the words
WrapScan(words, currentLine, lines, maxWidth) ==
    LET word  == Head(words)
        full  == currentLine # <<>> /\ Len(currentLine) + 1 + Len(word) > maxWidth
        line  == IF currentLine = <<>> \/ full THEN word
                 ELSE currentLine \o <<" ">> \o word
        sofar == IF full THEN Append(lines, currentLine) ELSE lines
    IN  IF Len(words) = 1
        THEN (IF line # <<>> THEN Append(sofar, line) ELSE sofar)
        ELSE WrapScan(Tail(words), line, sofar, maxWidth)

wrapVerseText(text, maxWidth) ==
    IF maxWidth <= 0 \/ Fields(text) = <<>> THEN <<text>>
    ELSE WrapScan(Fields(text), <<>>, <<>>, maxWidth)

calculateTextHeight(m, text, paddingWidth) ==
    Max(2, Len(wrapVerseText(text, Max(20, m.width - paddingWidth))) + 1)

calculateVerseHeight(m, verse) == calculateTextHeight(m, verse.Text, verseTextPadding)

RECURSIVE VisibleScan(_, _, _, _, _)
\* the loop of getVisibleVerses; i is the 0-based index
VisibleScan(m, i, currentHeight, visibleCount, availableHeight) ==
    IF i < Len(m.verses) /\ currentHeight < availableHeight
    THEN LET verseHeight == calculateVerseHeight(m, m.verses[i + 1])
         IN  IF currentHeight + verseHeight <= availableHeight
             THEN VisibleScan(m, i + 1, currentHeight + verseHeight,
                              visibleCount + 1, availableHeight)
             ELSE visibleCount
    ELSE visibleCount

\* getVisibleVerses reads m.verses[m.scrollOffset]: a negative offset is an
\* index out of range
VisibleVersesPanics(m) == m.mode = navigationMode /\ m.scrollOffset < 0

getVisibleVerses(m) ==
    IF m.mode # navigationMode
    THEN (IF m.height - 4 < 3 THEN 3 ELSE m.height - 4)
    ELSE IF VisibleVersesPanics(m) THEN 1
    ELSE Max(1, VisibleScan(m, m.scrollOffset, 0, 0, Max(5, m.height - 6)))

adjustScrollOffset(m, listLen, visibleItems) ==
    LET maxScroll == Max(0, listLen - visibleItems)
        first     == Min(maxScroll, Max(m.selected, m.scrollOffset))
        second    == IF m.selected >= first + visibleItems
                     THEN m.selected - visibleItems + 1 ELSE first
        third     == IF m.selected < second THEN m.selected ELSE second
    IN  [m EXCEPT !.scrollOffset = third]

\* m.adjustScrollOffset(listLen, m.getVisibleVerses())
AdjustToVisible(m, listLen) ==
    IF VisibleVersesPanics(m) THEN [m EXCEPT !.panicked = TRUE]
    ELSE adjustScrollOffset(m, listLen, getVisibleVerses(m))

resetVerseView(m, bibleData) ==
    [m EXCEPT !.verses = GetVerses(bibleData, m.currentBook, m.currentChapter),
              !.selected = 0,
              !.scrollOffset = 0]

\* the 1-based places of the book in the list
PlacesOfBook(books, book) == {i \in 1..Len(books) : books[i] = book}

FirstPlace(places) == CHOOSE i \in places : \A j \in places : i <= j

navigateToBook(m, direction) ==
    LET bibleData == getBibleData(m)
        books     == GetBooks(bibleData)
        found     == PlacesOfBook(books, m.currentBook)
    IN  IF found = {} THEN m
        ELSE LET newPlace == FirstPlace(found) + direction
             IN  IF newPlace >= 1 /\ newPlace <= Len(books)
                 THEN resetVerseView([m EXCEPT !.currentBook = books[newPlace],
                                               !.currentChapter = 1], bibleData)
                 ELSE m

goToPreviousBook(m) == IF m.mode # navigationMode THEN m ELSE navigateToBook(m, 0 - 1)

goToNextBook(m) == IF m.mode # navigationMode THEN m ELSE navigateToBook(m, 1)

RECURSIVE FindLastChapterFrom(_, _, _)
FindLastChapterFrom(bibleData, book, ch) ==
    IF Len(GetVerses(bibleData, book, ch)) = 0 THEN ch - 1
    ELSE FindLastChapterFrom(bibleData, book, ch + 1)

findLastChapter(bibleData, book) == FindLastChapterFrom(bibleData, book, 1)

goToPreviousBookLastChapter(m, bibleData) ==
    LET books == GetBooks(bibleData)
        found == {i \in PlacesOfBook(books, m.currentBook) : i > 1}
    IN  IF found = {} THEN m
        ELSE LET book == books[FirstPlace(found) - 1]
             IN  resetVerseView([m EXCEPT !.currentBook = book,
                                          !.currentChapter = findLastChapter(bibleData, book)],
                                bibleData)

goToNextBookFirstChapter(m, bibleData) ==
    LET books == GetBooks(bibleData)
        found == {i \in PlacesOfBook(books, m.currentBook) : i < Len(books)}
    IN  IF found = {}
        THEN resetVerseView([m EXCEPT !.currentChapter = @ - 1], bibleData)
        ELSE resetVerseView([m EXCEPT !.currentBook = books[FirstPlace(found) + 1],
                                      !.currentChapter = 1], bibleData)

goToPreviousChapter(m) ==
    IF m.mode # navigationMode THEN m
    ELSE LET bibleData == getBibleData(m)
         IN  IF m.currentChapter > 1
             THEN resetVerseView([m EXCEPT !.currentChapter = @ - 1], bibleData)
             ELSE goToPreviousBookLastChapter(m, bibleData)

goToNextChapter(m) ==
    IF m.mode # navigationMode THEN m
    ELSE LET bibleData == getBibleData(m)
             next      == [m EXCEPT !.currentChapter = @ + 1,
                                    !.verses = GetVerses(bibleData, m.currentBook,
                                                         m.currentChapter + 1)]
         IN  IF Len(next.verses) = 0
             THEN goToNextBookFirstChapter(next, bibleData)
             ELSE [next EXCEPT !.selected = 0, !.scrollOffset = 0]

moveUp(m, listLen) ==
    IF m.selected > 0
    THEN LET moved == [m EXCEPT !.selected = @ - 1]
         IN  IF ~m.zenMode THEN AdjustToVisible(moved, listLen) ELSE moved
    ELSE m

moveDown(m, listLen) ==
    IF m.selected < listLen - 1
    THEN LET moved == [m EXCEPT !.selected = @ + 1]
         IN  IF ~m.zenMode THEN AdjustToVisible(moved, listLen) ELSE moved
    ELSE m

getActiveList(m) ==
    IF m.mode = searchMode /\ Len(m.searchResults) > 0
    THEN [listLen |-> Len(m.searchResults), ok |-> TRUE]
    ELSE IF m.mode = navigationMode
         THEN [listLen |-> Len(m.verses), ok |-> TRUE]
         ELSE [listLen |-> 0, ok |-> FALSE]

pageDown(m, listLen) ==
    IF VisibleVersesPanics(m) THEN [m EXCEPT !.panicked = TRUE]
    ELSE LET visibleVerses == getVisibleVerses(m)
             halfPage      == Max(1, visibleVerses \div 2)
         IN  adjustScrollOffset([m EXCEPT !.selected = Min(listLen - 1, @ + halfPage)],
                                listLen, visibleVerses)

pageUp(m, listLen) ==
    IF VisibleVersesPanics(m) THEN [m EXCEPT !.panicked = TRUE]
    ELSE LET visibleVerses == getVisibleVerses(m)
             halfPage      == Max(1, visibleVerses \div 2)
         IN  adjustScrollOffset([m EXCEPT !.selected = Max(0, @ - halfPage)],
                                listLen, visibleVerses)

handleMovement(m, direction) ==
    LET active == getActiveList(m)
    IN  IF ~active.ok THEN m
        ELSE CASE direction = "up"       -> moveUp(m, active.listLen)
               [] direction = "down"     -> moveDown(m, active.listLen)
               [] direction = "pageUp"   -> pageUp(m, active.listLen)
               [] direction = "pageDown" -> pageDown(m, active.listLen)

\* the AppState that saveCurrentState writes to state.json
saveCurrentState(m) ==
    [CurrentTranslation |-> m.currentTranslation,
     CurrentBook        |-> m.currentBook,
     CurrentChapter     |-> m.currentChapter,
     Selected           |-> m.selected,
     ScrollOffset       |-> m.scrollOffset,
     exists             |-> TRUE]

----------------------------------------------------------------------------
(***************************************************************************)
(* initialModel and Update.  A handler is an operator from the model to    *)
(* the changed model, the returned command and whether the state was       *)
(* saved; there is one action per message type of Update.                  *)
(***************************************************************************)

getDefaultAppState ==
    [CurrentTranslation |-> <<>>, CurrentBook |-> <<>>, CurrentChapter |-> 1,
     Selected |-> 0, ScrollOffset |-> 0, exists |-> FALSE]

\* loadState: the default state when there is no file or no translation in it
loadState(file) ==
    IF ~file.exists \/ file.CurrentTranslation = <<>> THEN getDefaultAppState
    ELSE file

\* states that an earlier run has saved
SavedStates ==
    {NoState,
     [CurrentTranslation |-> KJV, CurrentBook |-> Genesis, CurrentChapter |-> 1,
      Selected |-> 2, ScrollOffset |-> 0, exists |-> TRUE]}

contains(slice, item) == \E i \in 1..Len(slice) : slice[i] = item

initialModel(file) ==
    LET savedState  == loadState(file)
        translation == IF \/ savedState.CurrentTranslation = <<>>
                          \/ ~contains(UITranslationNames, savedState.CurrentTranslation)
                       THEN UITranslationNames[1]
                       ELSE savedState.CurrentTranslation
        bibleData   == BibleDataOf(translation)
        books       == GetBooks(bibleData)
        rebook      == savedState.CurrentBook = <<>> \/ ~contains(books, savedState.CurrentBook)
        book        == IF rebook THEN books[1] ELSE savedState.CurrentBook
        chapter     == IF rebook THEN 1 ELSE savedState.CurrentChapter
        verses      == GetVerses(bibleData, book, chapter)
        reselect    == savedState.Selected >= Len(verses)
    IN  [currentTranslation |-> translation,
         currentBook        |-> book,
         currentChapter     |-> chapter,
         verses             |-> verses,
         searchQuery        |-> <<>>,
         searchResults      |-> <<>>,
         mode               |-> navigationMode,
         selected           |-> IF reselect THEN 0 ELSE savedState.Selected,
         scrollOffset       |-> IF reselect THEN 0 ELSE savedState.ScrollOffset,
         height             |-> 24,
         width              |-> 80,
         zenMode            |-> FALSE,
         panicked           |-> FALSE]

\* return m, nil
Continue(m) == [m |-> m, cmd |-> "nil", save |-> FALSE]

\* m.saveCurrentState(); return m, tea.Quit
SaveAndQuit(m) == [m |-> m, cmd |-> "Quit", save |-> TRUE]

\* the Esc handler with the bug of quitting in every mode
UpdateEscQuits(m) == SaveAndQuit(m)

\* case tea.KeyCtrlC, tea.KeyEsc
UpdateEsc(m) ==
    IF m.mode = searchMode
    THEN Continue([m EXCEPT !.mode = navigationMode,
                            !.searchQuery = <<>>,
                            !.searchResults = <<>>])
    ELSE SaveAndQuit(m)

\* the cursor left on the first row whatever verse was chosen
SelectFirstRow(verses, number) == 0

\* the place of the first verse with the number, as a 0-based index; 0 if none
SelectVerse(verses, number) ==
    LET found == {i \in 1..Len(verses) : verses[i].Verse = number}
    IN  IF found = {} THEN 0 ELSE FirstPlace(found) - 1

\* case tea.KeyEnter
UpdateEnter(m) ==
    IF m.mode # searchMode THEN Continue(m)
    ELSE IF Len(m.searchResults) = 0 /\ m.searchQuery # <<>>
    THEN Continue([m EXCEPT !.searchResults = Search(getBibleData(m), m.searchQuery),
                            !.selected = 0,
                            !.scrollOffset = 0])
    ELSE IF Len(m.searchResults) > 0 /\ m.selected < Len(m.searchResults)
    THEN IF m.selected < 0 THEN Continue([m EXCEPT !.panicked = TRUE])
         ELSE LET result == m.searchResults[m.selected + 1]
                  verses == GetVerses(getBibleData(m), result.Book, result.Chapter)
              IN  Continue([m EXCEPT !.currentBook = result.Book,
                                     !.currentChapter = result.Chapter,
                                     !.verses = verses,
                                     !.mode = navigationMode,
                                     !.selected = SelectVerse(verses, result.Verse),
                                     !.scrollOffset = 0])
    ELSE Continue(m)

\* the query is being typed: search mode and no results
Typing(m) == m.mode = searchMode /\ Len(m.searchResults) = 0

\* case tea.KeyBackspace
UpdateBackspace(m) ==
    IF Typing(m) /\ Len(m.searchQuery) > 0
    THEN Continue([m EXCEPT !.searchQuery = SubSeq(@, 1, Len(@) - 1)])
    ELSE Continue(m)

\* case tea.KeySpace
UpdateSpace(m) ==
    IF Typing(m) THEN Continue([m EXCEPT !.searchQuery = @ \o <<" ">>])
    ELSE Continue(m)

\* case '/'
UpdateSlash(m) ==
    IF m.mode = navigationMode
    THEN [m EXCEPT !.mode = searchMode, !.searchQuery = <<>>,
                   !.searchResults = <<>>, !.selected = 0]
    ELSE [m EXCEPT !.searchQuery = <<>>, !.searchResults = <<>>,
                   !.selected = 0, !.scrollOffset = 0]

\* case 'G'
UpdateBottom(m) ==
    LET active == getActiveList(m)
    IN  IF ~active.ok THEN m
        ELSE LET moved == [m EXCEPT !.selected = active.listLen - 1]
             IN  IF VisibleVersesPanics(moved) THEN [moved EXCEPT !.panicked = TRUE]
                 ELSE IF moved.selected >= getVisibleVerses(moved)
                 THEN [moved EXCEPT !.scrollOffset =
                                        moved.selected - getVisibleVerses(moved) + 1]
                 ELSE moved

\* case 't', 'T'
UpdateTranslation(m, r) ==
    LET names        == UITranslationNames
        found        == {i \in 1..Len(names) : names[i] = m.currentTranslation}
        currentIndex == IF found = {} THEN 0 - 1 ELSE FirstPlace(found) - 1
        nextIndex    == IF r = "t" THEN (currentIndex + 1) % Len(names)
                        ELSE IF currentIndex - 1 < 0 THEN Len(names) - 1
                        ELSE currentIndex - 1
        switched     == [m EXCEPT !.currentTranslation = names[nextIndex + 1]]
        bibleData    == getBibleData(switched)
        books        == GetBooks(bibleData)
    IN  IF ~contains(books, m.currentBook)
        THEN resetVerseView([switched EXCEPT !.currentBook = books[1],
                                             !.currentChapter = 1], bibleData)
        ELSE resetVerseView(switched, bibleData)

\* case tea.KeyRunes
UpdateRunes(m, r) ==
    IF Typing(m)
    THEN IF r = "/"
         THEN Continue([m EXCEPT !.searchQuery = <<>>, !.searchResults = <<>>,
                                 !.selected = 0, !.scrollOffset = 0])
         ELSE Continue([m EXCEPT !.searchQuery = @ \o <<r>>])
    ELSE CASE r = "/" -> Continue(UpdateSlash(m))
           [] r = "g" -> Continue(IF m.selected > 0
                                  THEN [m EXCEPT !.selected = 0, !.scrollOffset = 0]
                                  ELSE m)
           [] r = "G" -> Continue(UpdateBottom(m))
           [] r = "b" -> Continue(goToPreviousBook(m))
           [] r = "w" -> Continue(goToNextBook(m))
           [] r = "k" -> Continue(handleMovement(m, "up"))
           [] r = "j" -> Continue(handleMovement(m, "down"))
           [] r = "h" -> Continue(goToPreviousChapter(m))
           [] r = "l" -> Continue(goToNextChapter(m))
           [] r \in {"t", "T"} ->
                 Continue(IF m.mode = navigationMode THEN UpdateTranslation(m, r) ELSE m)
           [] r = "z" -> Continue(IF m.mode = navigationMode
                                  THEN [m EXCEPT !.zenMode = ~@] ELSE m)
           [] r = "q" -> SaveAndQuit(m)
           [] OTHER -> Continue(m)

\* case tea.WindowSizeMsg
UpdateWindowSize(m, width, height) ==
    LET sized == [m EXCEPT !.height = height, !.width = width]
    IN  IF sized.scrollOffset > 0 /\ Len(sized.verses) > 0
        THEN Continue(AdjustToVisible(sized, Len(sized.verses)))
        ELSE Continue(sized)

\* the runes pressed: commands of one kind each (the arrow and page keys do
\* what j, k, b and w do)
Runes == {"/", "g", "G", "h", "l", "t", "z", "q"}

\* the runes typed into a query
TypedRunes == {"/", "g", "q"}

WindowSizes == {[width |-> 80, height |-> 24], [width |-> 26, height |-> 9]}

UIInit ==
    /\ doc \in UIDocuments
    /\ bd = NewBibleData(doc.bible, doc.order)
    /\ call = Call("start")
    /\ res = NoResult
    /\ RegistryUnused
    /\ stateFile \in SavedStates
    /\ model = initialModel(stateFile)
    /\ cmd = "nil"

\* the program runs until Update returns tea.Quit or panics
Running == cmd = "nil"

\* Update has returned: the changed model, the command and the saved state;
\* call records the message that Update handled
Deliver(msg, update) ==
    /\ call' = msg
    /\ model' = update.m
    /\ cmd' = IF update.m.panicked THEN "panic" ELSE update.cmd
    /\ stateFile' = IF update.save /\ ~update.m.panicked
                    THEN saveCurrentState(update.m) ELSE stateFile
    /\ UNCHANGED <<doc, bd, res, registryVars>>

KeyEsc == Running /\ Deliver(Call("KeyEsc"), UpdateEsc(model))

KeyCtrlC == Running /\ Deliver(Call("KeyCtrlC"), UpdateEsc(model))

KeyEnter == Running /\ Deliver(Call("KeyEnter"), UpdateEnter(model))

KeyBackspace == Running /\ Deliver(Call("KeyBackspace"), UpdateBackspace(model))

KeySpace ==
    /\ Running
    /\ Typing(model) => Len(model.searchQuery) < MaxQueryLen
    /\ Deliver(Call("KeySpace"), UpdateSpace(model))

KeyRunes ==
    /\ Running
    /\ \E r \in Runes :
          /\ Typing(model) =>
                /\ r \in TypedRunes
                /\ r = "/" \/ Len(model.searchQuery) < MaxQueryLen
          /\ Deliver([Call("KeyRunes") EXCEPT !.query = <<r>>], UpdateRunes(model, r))

KeyUp == Running /\ Deliver(Call("KeyUp"), Continue(handleMovement(model, "up")))

KeyDown == Running /\ Deliver(Call("KeyDown"), Continue(handleMovement(model, "down")))

KeyLeft == Running /\ Deliver(Call("KeyLeft"), Continue(goToPreviousChapter(model)))

KeyRight == Running /\ Deliver(Call("KeyRight"), Continue(goToNextChapter(model)))

KeyPgUp ==
    Running /\ Deliver(Call("KeyPgUp"), Continue(IF model.mode = navigationMode
                                THEN goToPreviousBook(model) ELSE model))

KeyPgDown ==
    Running /\ Deliver(Call("KeyPgDown"), Continue(IF model.mode = navigationMode
                                THEN goToNextBook(model) ELSE model))

KeyCtrlD == Running /\ Deliver(Call("KeyCtrlD"), Continue(handleMovement(model, "pageDown")))

KeyCtrlU == Running /\ Deliver(Call("KeyCtrlU"), Continue(handleMovement(model, "pageUp")))

WindowSizeMsg ==
    /\ Running
    /\ \E size \in WindowSizes :
          Deliver(Call("WindowSizeMsg"), UpdateWindowSize(model, size.width, size.height))

UINext ==
    \/ KeyEsc
    \/ KeyCtrlC
    \/ KeyEnter
    \/ KeyBackspace
    \/ KeySpace
    \/ KeyRunes
    \/ KeyUp
    \/ KeyDown
    \/ KeyLeft
    \/ KeyRight
    \/ KeyPgUp
    \/ KeyPgDown
    \/ KeyCtrlD
    \/ KeyCtrlU
    \/ WindowSizeMsg

UISpec == UIInit /\ [][UINext]_vars

----------------------------------------------------------------------------
(***************************************************************************)
(* intersect on its own: the function reads no corpus, so its behaviours   *)
(* start from the empty program state and hand it two lists of verse       *)
(* positions in non-decreasing order, with and without repeated entries.   *)
(***************************************************************************)

MaxPostings == 3    \* entries in a list handed to intersect
MaxPosition == 3    \* the largest verse position in such a list

\* the lists of at most MaxPostings positions in non-decreasing order
PostingLists ==
    {s \in UNION {[1..n -> 0..MaxPosition] : n \in 0..MaxPostings} :
        \A k \in 1..(Len(s) - 1) : s[k] <= s[k + 1]}

IntersectInit ==
    /\ CorpusUnused
    /\ RegistryUnused
    /\ UIUnused

CallIntersect ==
    /\ call.op \in {"start", "idle"}
    /\ \E a \in PostingLists, b \in PostingLists :
          /\ call' = [Call("intersect") EXCEPT !.a = a, !.b = b]
          /\ res' = [NoResult EXCEPT !.candidates = intersect(a, b)]
    /\ UNCHANGED <<doc, bd, registryVars, uiVars>>

IntersectNext ==
    \/ CallIntersect
    \/ Return

IntersectSpec == IntersectInit /\ [][IntersectNext]_vars
----------------------------------------------------------------------------
(* Vocabulary of the properties.                                           *)

Loaded == call.op # "start"

\* the 1-based places of the flat verse sequence
Places == 1..Len(bd.verses)

\* name equals the book's name or is a prefix of it, letter case ignored
NameMatchesBook(book, name) ==
    LET bookLower == ToLower(book)
        nameLower == ToLower(name)
    IN  /\ Len(nameLower) <= Len(bookLower)
        /\ \A k \in 1..Len(nameLower) : bookLower[k] = nameLower[k]

\* the places of the book list whose book the name matches
BookHits(name) == {i \in 1..Len(bd.bookList) : NameMatchesBook(bd.bookList[i], name)}

\* the book a name resolves to: the hit of smallest position; <<>> if none
ResolvedBook(name) ==
    IF BookHits(name) = {} THEN <<>>
    ELSE bd.bookList[CHOOSE i \in BookHits(name) : \A j \in BookHits(name) : i <= j]

IsPositiveInt(tok) == Atoi(tok).ok /\ Atoi(tok).num > 0

Occurrences(seq, x) == Cardinality({i \in 1..Len(seq) : seq[i] = x})

FirstNonEmpty(results) ==
    IF \A i \in 1..Len(results) : results[i] = <<>> THEN <<>>
    ELSE results[CHOOSE i \in 1..Len(results) :
                    /\ results[i] # <<>>
                    /\ \A j \in 1..(i - 1) : results[j] = <<>>]

\* what the indexed strategy produces: nothing when there is no candidate set
IndexedResult(query) ==
    LET candidates == getCandidateIndices(bd, Fields(ToLower(query)))
    IN  IF candidates.isNil THEN <<>>
        ELSE scoreAndSortCandidates(bd, candidates.elems, query)

\* the cleaned, lower-cased words of a text
WordsOf(text) ==
    LET words == Fields(ToLower(text))
    IN  {cleanWord(words[i]) : i \in 1..Len(words)}

----------------------------------------------------------------------------
(* C1..C10                                                                 *)

\* C1: for a non-empty query Search returns the result of the first of the
\* four strategies (reference, book-scoped keyword, indexed, full scan)
\* whose result is non-empty, hence the full-scan result when the first
\* three produce nothing.
C1_FirstNonEmptyStrategyWins ==
    (call.op = "Search" /\ call.query # <<>>) =>
        res.verses = FirstNonEmpty(<<searchByReference(bd, call.query),
                                     BookScoped(bd, call.query),
                                     IndexedResult(call.query),
                                     fullTextSearch(bd, call.query)>>)

\* C2: for a query of several words that neither the reference nor the
\* book-scoped strategy resolves, Search returns every verse whose text
\* contains all the words of the query, in any order and position.
C2_AllWordsVersesReturned ==
    (/\ call.op = "Search"
     /\ Len(Fields(call.query)) >= 2
     /\ res.via \notin {"reference", "book"}) =>
        \A p \in Places :
            WordsOf(call.query) \subseteq WordsOf(bd.verses[p].Text)
                => bd.verses[p] \in Range(res.verses)

\* what C3 expects of the query <bookPart> [<chapterPart>][:<versePart>]
ReferenceExpected(bookPart, chapterPart, versePart) ==
    LET byChapter == chapterPart.has /\ IsPositiveInt(chapterPart.tok)
        byVerse   == versePart.has /\ IsPositiveInt(versePart.tok)
        bookName  == IF chapterPart.has /\ ~byChapter
                     THEN bookPart \o <<" ">> \o chapterPart.tok
                     ELSE bookPart
        B         == ResolvedBook(bookName)
        Wanted(v) == /\ v.Book = B
                     /\ byChapter => v.Chapter = Atoi(chapterPart.tok).num
                     /\ byVerse => v.Verse = Atoi(versePart.tok).num
    IN  IF B = <<>> THEN <<>> ELSE SelectSeq(bd.verses, Wanted)

\* C3: searchByReference on <book> [<chapter>][:<verse>] returns the verses
\* of the resolved book, restricted to the chapter when the last token
\* before ':' is a positive integer and to the verse when the part after ':'
\* is a positive integer, in corpus order; an unparsable verse part applies
\* no verse filter, and an unresolved book gives the empty result.
C3_ReferenceFilters ==
    call.op = "searchByReference" =>
        \A bp \in BookParts, cp \in ChapterParts, vp \in VerseParts :
            call.query = RefQuery(bp, cp, vp) =>
                res.verses = ReferenceExpected(bp, cp, vp)

\* a reference with a chapter and a verse that selects one verse out of a
\* book that has more, and one whose verse part does not parse
C3_Witness ==
    /\ call.op = "searchByReference"
    /\ \/ /\ call.query = RefQuery(<<"g", "e", "n">>, Given(<<"1">>), Given(<<"2">>))
          /\ Len(res.verses) = 1
          /\ Cardinality({p \in Places : bd.verses[p].Book = Genesis}) > 1
       \/ /\ call.query = RefQuery(<<"g", "e", "n">>, Given(<<"1">>), Given(<<"x">>))
          /\ Len(res.verses) > 1

\* C4: findBook returns the book of smallest position in the book list whose
\* lower-cased name equals the lower-cased argument or has it as a prefix,
\* and the empty string when there is none.
C4_FindBookFirstMatch ==
    call.op = "findBook" => res.book = ResolvedBook(call.book)

\* an ambiguous prefix resolved to the earlier of two books
C4_Witness ==
    /\ call.op = "findBook"
    /\ Cardinality(BookHits(call.book)) >= 2
    /\ call.book # <<>>
    /\ res.book # <<>>
    /\ ToLower(res.book) # ToLower(call.book)

\* C5: when the reference strategy yields nothing, the query has two or more
\* tokens, the tokens before the last resolve to book B and some verse of B
\* matches the last token, Search returns exactly the verses of B that match
\* the last token, in non-decreasing score, and no verse of another book.
C5_BookScopedSearch ==
    call.op = "Search" =>
        \A bp \in BookParts, term \in SearchTerms :
            LET B        == ResolvedBook(bp)
                Hit(p)   == /\ bd.verses[p].Book = B
                            /\ fuzzyMatchAndScore(bd.verses[p].Text, term).matches
                hits     == {p \in Places : Hit(p)}
                Score(v) == fuzzyMatchAndScore(v.Text, term).score
            IN  (/\ call.query = BookTermQuery(bp, term)
                 /\ searchByReference(bd, call.query) = <<>>
                 /\ B # <<>>
                 /\ hits # {}) =>
                    /\ Len(res.verses) = Cardinality(hits)
                    /\ \A p \in hits :
                          Occurrences(res.verses, bd.verses[p])
                              = Cardinality({q \in hits : bd.verses[q] = bd.verses[p]})
                    /\ \A i \in 1..Len(res.verses) : res.verses[i].Book = B
                    /\ \A i, j \in 1..Len(res.verses) :
                          i < j => Score(res.verses[i]) <= Score(res.verses[j])

\* a book-scoped search that returns two verses of the book, the better
\* score first although it comes later in the corpus, while a verse of
\* another book matches the term too
C5_Witness ==
    /\ call.op = "Search"
    /\ call.query = BookTermQuery(<<"g", "e", "n">>, <<"g", "o", "d">>)
    /\ res.via = "book"
    /\ Len(res.verses) = 2
    /\ res.verses[1].Verse > res.verses[2].Verse
    /\ \E p \in Places :
          /\ bd.verses[p].Book # Genesis
          /\ fuzzyMatchAndScore(bd.verses[p].Text, <<"g", "o", "d">>).matches

\* C6: Search("") returns the empty sequence for every corpus and evaluates
\* no strategy.
C6_EmptyQueryReturnsNothing ==
    (call.op = "Search" /\ call.query = <<>>) =>
        (res.verses = <<>> /\ res.via = "empty")

\* the empty query on a corpus that has verses
C6_Witness ==
    /\ call.op = "Search"
    /\ call.query = <<>>
    /\ Len(bd.verses) >= 2
    /\ res.verses = <<>>

BookPlace(book) == CHOOSE i \in 1..Len(bd.bookList) : bd.bookList[i] = book

\* C7: in the flat verse sequence the verses are grouped by book in
\* book-list order, and inside a book the (chapter, verse) pairs ascend
\* numerically.
C7_FlatSequenceOrdered ==
    Loaded =>
        \A p, q \in Places :
            p < q =>
                LET v == bd.verses[p]
                    w == bd.verses[q]
                IN  \/ BookPlace(v.Book) < BookPlace(w.Book)
                    \/ /\ v.Book = w.Book
                       /\ \/ v.Chapter < w.Chapter
                          \/ v.Chapter = w.Chapter /\ v.Verse <= w.Verse

InCanon(book) == \E i \in 1..Len(biblicalOrder) : biblicalOrder[i] = book
InDocument(book) == book \in Range(doc.order)
NotInCanon(book) == ~InCanon(book)

\* C8: GetBooks returns each top-level name once: the names of the canonical
\* list first, in canonical order, then the unrecognized names in the order
\* in which the source document lists them.
C8_BookListOrder ==
    call.op = "GetBooks" =>
        res.books = SelectSeq(biblicalOrder, InDocument)
                        \o SelectSeq(doc.order, NotInCanon)

\* C9: construction is deterministic: loading the same document again
\* yields the same book list and the same flat verse sequence.
C9_ConstructionDeterministic ==
    [][(call.op = "idle" /\ call'.op = "NewBibleData") =>
            (bd'.bookList = bd.bookList /\ bd'.verses = bd.verses)]_vars

\* C10: GetVerses(book, chapter) returns exactly the verses of the flat
\* sequence with that book (exact match) and chapter, in ascending verse
\* number, and the empty sequence for a pair the corpus does not have.
C10_GetVersesOfChapter ==
    call.op = "GetVerses" =>
        LET Wanted(v) == v.Book = call.book /\ v.Chapter = call.chapter
        IN  /\ res.verses = SelectSeq(bd.verses, Wanted)
            /\ \A i, j \in 1..Len(res.verses) :
                  i < j => res.verses[i].Verse <= res.verses[j].Verse


----------------------------------------------------------------------------
(* C11..C13: the keys of the source document                               *)

\* the key parses as an integer that is not negative
NonNegativeKey(key) == Atoi(key).ok /\ Atoi(key).num >= 0

\* C11: construction skips every chapter key and every verse key that does
\* not parse as a non-negative integer: every Verse record stems from a
\* chapter key and a verse key that parse as non-negative integers, and
\* every leaf under such keys is ingested.
C11_UnparsableKeysSkipped ==
    Loaded =>
        /\ \A p \in Places :
              LET v == bd.verses[p]
              IN  \E ck \in DOMAIN doc.bible[v.Book] :
                     /\ NonNegativeKey(ck)
                     /\ Atoi(ck).num = v.Chapter
                     /\ \E vk \in DOMAIN doc.bible[v.Book][ck] :
                           NonNegativeKey(vk) /\ Atoi(vk).num = v.Verse
        /\ \A bk \in DOMAIN doc.bible :
              \A ck \in DOMAIN doc.bible[bk] :
                 \A vk \in DOMAIN doc.bible[bk][ck] :
                    (NonNegativeKey(ck) /\ NonNegativeKey(vk)) =>
                        \E p \in Places :
                           /\ bd.verses[p].Book = bk
                           /\ bd.verses[p].Chapter = Atoi(ck).num
                           /\ bd.verses[p].Verse = Atoi(vk).num

\* C12: no two records of the flat verse sequence share the same
\* (book, chapter, verse) triple, whatever the source document.
C12_TriplesUnique ==
    Loaded =>
        \A p, q \in Places :
            (/\ bd.verses[p].Book = bd.verses[q].Book
             /\ bd.verses[p].Chapter = bd.verses[q].Chapter
             /\ bd.verses[p].Verse = bd.verses[q].Verse) => p = q

\* the leaves of the document under the book and the chapter keys that
\* denote the chapter, whose verse key parses as an integer
LeavesOf(book, chapter) ==
    IF book \notin DOMAIN doc.bible THEN {}
    ELSE {l \in UNION {{<<ck, vk>> : vk \in DOMAIN doc.bible[book][ck]} :
                          ck \in DOMAIN doc.bible[book]} :
             /\ Atoi(l[1]).ok
             /\ Atoi(l[1]).num = chapter
             /\ Atoi(l[2]).ok}

\* the record a leaf stands for
LeafRecord(book, chapter, l) ==
    [Book |-> book, Chapter |-> chapter, Verse |-> Atoi(l[2]).num,
     Text |-> doc.bible[book][l[1]][l[2]]]

\* C13: the records GetVerses(book, chapter) returns correspond one to one
\* to the leaves of the document under that book and chapter whose keys
\* parse as integers: each record has the verse number of its key and the
\* text stored under that key, and there is no record without a leaf.
C13_LoadQueryRoundTrip ==
    call.op = "GetVerses" =>
        LET leaves == LeavesOf(call.book, call.chapter)
            Rec(l) == LeafRecord(call.book, call.chapter, l)
        IN  /\ Len(res.verses) = Cardinality(leaves)
            /\ \A l \in leaves :
                  Occurrences(res.verses, Rec(l))
                      = Cardinality({m \in leaves : Rec(m) = Rec(l)})

----------------------------------------------------------------------------
(* C16..C19: candidate sets and scores                                     *)

\* the lists that hold the same tokens in another order
PermutationsOf(words) ==
    {w \in [1..Len(words) -> Range(words)] : IsInjective(w)}

\* C16: the candidate set getCandidateIndices computes is the same for
\* every permutation of the token list.
C16_CandidatesOrderFree ==
    call.op = "getCandidateIndices" =>
        \A w \in PermutationsOf(call.words) :
            getCandidateIndices(bd, w) = res.candidates

\* the two-verse Genesis document of the round-trip scenario
GenesisBible ==
    [bk \in {Genesis} |-> [ck \in {<<"1">>} |->
        [vk \in {<<"1">>, <<"2">>} |->
            IF vk = <<"1">> THEN <<"I", "n", " ", "t", "h", "e", " ", "b", "e", "g", "i", "n", "n", "i", "n", "g">>
            ELSE <<"A", "n", "d", " ", "t", "h", "e", " ", "e", "a", "r", "t", "h", " ", "w", "a", "s", " ", "f", "o", "r", "m", "l", "e", "s", "s">>]]]

GenesisOneOne ==
    [Book |-> Genesis, Chapter |-> 1, Verse |-> 1, Text |-> <<"I", "n", " ", "t", "h", "e", " ", "b", "e", "g", "i", "n", "n", "i", "n", "g">>]

SearchesBeginning ==
    /\ call.op = "Search"
    /\ doc.bible = GenesisBible
    /\ call.query = <<"b", "e", "g", "i", "n", "n", "i", "n", "g">>

\* C18 as stated: with the two-verse Genesis document Search("beginning")
\* returns exactly Genesis 1:1 through the indexed strategy, and the score
\* of that verse is 3.
C18_BeginningScoreThree ==
    SearchesBeginning =>
        /\ res.verses = <<GenesisOneOne>>
        /\ res.via = "index"
        /\ fuzzyMatchAndScore(res.verses[1].Text, call.query).score = 3

\* C18 amended: with the two-verse Genesis document Search("beginning")
\* returns exactly Genesis 1:1 through the indexed strategy, and the score
\* of that verse is 7, the 0-based index of "beginning" in "in the beginning".
C18_BeginningScoreSeven ==
    SearchesBeginning =>
        /\ res.verses = <<GenesisOneOne>>
        /\ res.via = "index"
        /\ fuzzyMatchAndScore(res.verses[1].Text, call.query).score = 7

\* Search("beginning") has returned one verse of the Genesis document
C18_Witness ==
    /\ SearchesBeginning
    /\ Len(res.verses) = 1

\* no whitespace token of the query has a cleaned length above the minimum
ShortTokensOnly(query) ==
    LET words == Fields(ToLower(query))
    IN  \A i \in 1..Len(words) : Len(cleanWord(words[i])) <= minSearchLength

\* C19: when Search gets nothing from the reference strategy and from the
\* book-scoped strategy and no token of the query has a cleaned length above
\* 2, the candidate set is nil and Search returns the full-scan result:
\* exactly the verses that match the whole query, in non-decreasing score.
C19_ShortTokensFullScan ==
    (/\ call.op = "Search"
     /\ call.query # <<>>
     /\ searchByReference(bd, call.query) = <<>>
     /\ BookScoped(bd, call.query) = <<>>
     /\ ShortTokensOnly(call.query)) =>
        LET hits     == {p \in Places :
                            fuzzyMatchAndScore(bd.verses[p].Text, call.query).matches}
            Score(v) == fuzzyMatchAndScore(v.Text, call.query).score
        IN  /\ getCandidateIndices(bd, Fields(ToLower(call.query))).isNil
            /\ res.via = "scan"
            /\ Len(res.verses) = Cardinality(hits)
            /\ \A p \in hits :
                  Occurrences(res.verses, bd.verses[p])
                      = Cardinality({q \in hits : bd.verses[q] = bd.verses[p]})
            /\ \A i, j \in 1..Len(res.verses) :
                  i < j => Score(res.verses[i]) <= Score(res.verses[j])

\* a query of one short token that the full scan answers with two verses,
\* the later verse of the corpus first
C19_Witness ==
    /\ call.op = "Search"
    /\ call.query = <<"h", "e">>
    /\ res.via = "scan"
    /\ Len(res.verses) = 2
    /\ res.verses[1].Verse > res.verses[2].Verse

----------------------------------------------------------------------------
(* C14, C15: the cache of the registry                                     *)

\* C14: over the calls of GetCurrentBibleData, a translation is constructed
\* only in the first call that asks for it or falls back to it; an entry of
\* the cache is never removed or replaced; and a call for a name that is in
\* the cache returns the cached pair without reading or constructing.
C14_LazyCacheNeverEvicts ==
    [][/\ \A n \in FilePool :
             hist'.constructed[n] # hist.constructed[n] =>
                 /\ n \notin hist.resolved
                 /\ n \notin DOMAIN mbd.translations
                 /\ hist.constructed[n] = 0
                 /\ hist'.constructed[n] = 1
       /\ \A n \in DOMAIN mbd.translations :
             /\ n \in DOMAIN mbd'.translations
             /\ mbd'.translations[n] = mbd.translations[n]
       /\ \A g \in Callers :
             (callers'[g].pc = "done" /\ callers'[g].hit) =>
                 /\ callers'[g].result = mbd'.translations[callers'[g].requested]
                 /\ callers'[g].reads = 0
                 /\ callers'[g].builds = 0]_vars

\* a call for a translation that an earlier call constructed has returned
\* the pair of the cache; another call has been served by the fallback
C14_Witness ==
    /\ \E g \in Callers :
          /\ callers[g].pc = "done"
          /\ callers[g].hit
          /\ callers[g].requested \in hist.resolved
          /\ hist.constructed[callers[g].requested] = 1
          /\ callers[g].result = mbd.translations[callers[g].requested]
    /\ NIV \in hist.resolved

\* C15: when several callers run GetCurrentBibleData at the same time, the
\* pair of a name is constructed at most once, and the callers that ask for
\* the same name obtain the same pair.
C15_ConstructedAtMostOnce ==
    /\ \A n \in FilePool : hist.constructed[n] <= 1
    /\ \A g, h \in Callers :
          (/\ callers[g].pc = "done"
           /\ callers[h].pc = "done"
           /\ callers[g].requested = callers[h].requested) =>
              callers[g].result = callers[h].result

----------------------------------------------------------------------------
(* C20: Esc and Ctrl-C                                                     *)

\* C20: in search mode Esc (and Ctrl-C) does not quit: the UI goes to
\* navigation mode with the query and the results cleared, and translation,
\* book, chapter and verses stay as they are; in navigation mode Esc saves
\* the state and quits.
C20_EscLeavesSearchMode ==
    [][(cmd = "nil" /\ call'.op \in {"KeyEsc", "KeyCtrlC"}) =>
          IF model.mode = searchMode
          THEN /\ cmd' = "nil"
               /\ stateFile' = stateFile
               /\ model'.mode = navigationMode
               /\ model'.searchQuery = <<>>
               /\ model'.searchResults = <<>>
               /\ model'.currentTranslation = model.currentTranslation
               /\ model'.currentBook = model.currentBook
               /\ model'.currentChapter = model.currentChapter
               /\ model'.verses = model.verses
          ELSE /\ cmd' = "Quit"
               /\ stateFile' = saveCurrentState(model)]_vars

\* Esc has been pressed in search mode: the program runs on in navigation
\* mode, the cursor where it was in the list of results
C20_Witness ==
    /\ call.op = "KeyEsc"
    /\ cmd = "nil"
    /\ model.mode = navigationMode
    /\ model.searchQuery = <<>>
    /\ Len(model.verses) > 0
    /\ model.selected > 0

----------------------------------------------------------------------------
(* C21: Enter on a search result                                           *)

\* C21: in search mode with results shown, Enter on the selected result r
\* switches to navigation mode with currentBook = r.Book, currentChapter =
\* r.Chapter, verses = the verses of that chapter, and the cursor on the
\* chosen verse: verses[selected] = r.
C21_EnterOpensResult ==
    [][(/\ cmd = "nil"
        /\ call'.op = "KeyEnter"
        /\ model.mode = searchMode
        /\ Len(model.searchResults) > 0) =>
          /\ model.selected \in 0..(Len(model.searchResults) - 1)
          /\ LET r == model.searchResults[model.selected + 1]
             IN  /\ cmd' = "nil"
                 /\ model'.mode = navigationMode
                 /\ model'.currentBook = r.Book
                 /\ model'.currentChapter = r.Chapter
                 /\ model'.verses = GetVerses(getBibleData(model), r.Book, r.Chapter)
                 /\ model'.selected \in 0..(Len(model'.verses) - 1)
                 /\ model'.verses[model'.selected + 1] = r]_vars

\* Enter has opened a result that is not the first verse of its chapter: the
\* results are still held, the UI is in navigation mode and the cursor is on
\* a later row
C21_Witness ==
    /\ call.op = "KeyEnter"
    /\ cmd = "nil"
    /\ model.mode = navigationMode
    /\ Len(model.searchResults) > 0
    /\ model.selected > 0
    /\ \E i \in 1..Len(model.searchResults) :
          model.searchResults[i] = model.verses[model.selected + 1]

----------------------------------------------------------------------------
(* C22: chapter navigation                                                 *)

RECURSIVE PairScan(_, _)
\* the (book, chapter) pairs of a flat verse sequence, each once, in the
\* order of their first verse
PairScan(verses, seen) ==
    IF verses = <<>> THEN seen
    ELSE LET pair == <<Head(verses).Book, Head(verses).Chapter>>
         IN  PairScan(Tail(verses),
                      IF \E i \in 1..Len(seen) : seen[i] = pair
                      THEN seen ELSE Append(seen, pair))

\* the (book, chapter) pairs of the corpus in canonical order
ChapterPairs(b) == PairScan(b.verses, <<>>)

\* the message is the key for the next (or the previous) chapter
NextChapterKey(msg) ==
    msg.op = "KeyRight" \/ (msg.op = "KeyRunes" /\ msg.query = <<"l">>)

PreviousChapterKey(msg) ==
    msg.op = "KeyLeft" \/ (msg.op = "KeyRunes" /\ msg.query = <<"h">>)

\* C22: chapter navigation reaches every chapter.  In navigation mode at
\* a (book, chapter) pair of the corpus, `l` goes to the next pair of the
\* corpus in canonical order and leaves the last pair unchanged, and `h` goes
\* to the previous pair and leaves the first pair unchanged: pressed
\* repeatedly from the first chapter of the first book, `l` visits every pair
\* in order and stops at the last, and `h` walks the same pairs in reverse.
C22_ChapterNavigationVisitsAll ==
    [][(/\ cmd = "nil"
        /\ model.mode = navigationMode
        /\ NextChapterKey(call') \/ PreviousChapterKey(call')) =>
          LET pairs == ChapterPairs(getBibleData(model))
              here  == <<model.currentBook, model.currentChapter>>
              there == <<model'.currentBook, model'.currentChapter>>
          IN  \A i \in 1..Len(pairs) :
                 pairs[i] = here =>
                    IF NextChapterKey(call')
                    THEN there = (IF i < Len(pairs) THEN pairs[i + 1] ELSE here)
                    ELSE there = (IF i > 1 THEN pairs[i - 1] ELSE here)]_vars

----------------------------------------------------------------------------
(* C30: the cursor in navigation mode                                      *)

\* C30: after any sequence of key and window-size events, whenever the UI is
\* in navigation mode the cursor is a valid row: selected >= 0, and
\* selected < len(verses) whenever the loaded chapter has verses.
C30_CursorOnARow ==
    (cmd = "nil" /\ model.mode = navigationMode) =>
        /\ model.selected >= 0
        /\ Len(model.verses) > 0 => model.selected < Len(model.verses)

----------------------------------------------------------------------------
(* C23: the posting lists                                                  *)

\* C23: in every constructed corpus every posting list of the index is
\* strictly ascending (each verse position occurs at most once), every
\* position in it is a valid index into the flat verse sequence, and the
\* verse at that position has the list's token among its lower-cased,
\* punctuation-stripped tokens of length above minWordLength.
C23_PostingListsStrictlyAscending ==
    Loaded =>
        \A token \in DOMAIN bd.index :
            LET list == bd.index[token]
            IN  \A k \in 1..Len(list) :
                   /\ list[k] \in 0..(Len(bd.verses) - 1)
                   /\ k < Len(list) => list[k] < list[k + 1]
                   /\ Len(token) > minWordLength
                   /\ token \in WordsOf(bd.verses[list[k] + 1].Text)

----------------------------------------------------------------------------
(* C27: no verse twice in a result                                         *)

\* C27: for every corpus and every query the sequence Search returns holds
\* each verse (each position of the flat sequence) at most once, also when
\* the verse's text repeats a word of the query: no record occurs more often
\* in the result than in the flat sequence.
C27_SearchResultWithoutRepeats ==
    call.op = "Search" =>
        \A i \in 1..Len(res.verses) :
            Occurrences(res.verses, res.verses[i])
                <= Occurrences(bd.verses, res.verses[i])

----------------------------------------------------------------------------
(* C24: intersect                                                          *)

StrictlyAscending(s) == \A k \in 1..(Len(s) - 1) : s[k] < s[k + 1]

\* C24: for every two ascending integer sequences a and b, intersect(a, b)
\* is the ascending sequence holding exactly the integers that occur in both
\* a and b (strictly ascending when a and b are), and
\* intersect(a, b) = intersect(b, a).
C24_IntersectIsSortedIntersection ==
    call.op = "intersect" =>
        LET result == res.candidates.elems
        IN  /\ \A k \in 1..(Len(result) - 1) : result[k] <= result[k + 1]
            /\ (StrictlyAscending(call.a) /\ StrictlyAscending(call.b))
                  => StrictlyAscending(result)
            /\ Range(result) = Range(call.a) \cap Range(call.b)
            /\ res.candidates = intersect(call.b, call.a)

\* intersect has been applied to two different lists that share more than
\* one position and each hold a position the other lacks
C24_Witness ==
    /\ call.op = "intersect"
    /\ StrictlyAscending(call.a)
    /\ StrictlyAscending(call.b)
    /\ Len(res.candidates.elems) >= 2
    /\ Range(call.a) \ Range(call.b) # {}
    /\ Range(call.b) \ Range(call.a) # {}

----------------------------------------------------------------------------
(* C25: a token without a posting list                                     *)

\* a word of the list has a cleaned length above minSearchLength and no
\* posting list
SomeTokenUnindexed(words) ==
    \E k \in 1..Len(words) :
        /\ Len(cleanWord(words[k])) > minSearchLength
        /\ cleanWord(words[k]) \notin DOMAIN bd.index

\* C25: if any query token of cleaned length above minSearchLength has no
\* posting list, the indexed strategy aborts with the no-candidates signal
\* (nil) whatever the other tokens are, no index-derived candidate is
\* scored, and a Search that reaches the indexed strategy returns exactly what
\* the full scan of the original query returns.
C25_UnindexedTokenAborts ==
    /\ (call.op = "getCandidateIndices" /\ SomeTokenUnindexed(call.words))
          => res.candidates = NilSlice
    /\ (/\ call.op = "Search"
        /\ res.via \notin {"empty", "reference", "book"}
        /\ SomeTokenUnindexed(Fields(ToLower(call.query))))
          => /\ res.via = "scan"
             /\ res.verses = fullTextSearch(bd, call.query)

\* Search has been given a query whose first token has a posting list and
\* whose second has none, and the full scan has found a verse
C25_Witness ==
    /\ call.op = "Search"
    /\ call.query = <<"t", "h", "e", " ", "b", "e", "g", "i", "n">>
    /\ <<"t", "h", "e">> \in DOMAIN bd.index
    /\ SomeTokenUnindexed(Fields(ToLower(call.query)))
    /\ res.via = "scan"
    /\ Len(res.verses) > 0

----------------------------------------------------------------------------
(* C26: the empty pattern                                                  *)

\* C26: for every text, fuzzyMatchAndScore(text, "") reports a match whose
\* score is the best possible one: it is less than or equal to the score of
\* every match of any non-empty pattern, so an empty-pattern match is ranked
\* first.
C26_EmptyPatternScoresBest ==
    (call.op = "fuzzyMatchAndScore" /\ call.pattern = <<>>) =>
        /\ res.matches
        /\ \A p \in Places, pattern \in Patterns \ {<<>>} :
              LET scored == fuzzyMatchAndScore(bd.verses[p].Text, pattern)
              IN  scored.matches => res.score <= scored.score

----------------------------------------------------------------------------
(* C28: the index as an optimisation                                       *)

\* C28: the index is only an optimisation: for every corpus and every query
\* that reaches the indexed strategy with a non-nil candidate set, the set
\* of verses Search returns equals the set of verses the full scan over the
\* whole corpus returns for the same query.
C28_IndexAgreesWithFullScan ==
    (call.op = "Search" /\ res.via = "index") =>
        Range(res.verses) = Range(fullTextSearch(bd, call.query))

----------------------------------------------------------------------------
(* C29: the tiers of fuzzyMatchAndScore                                    *)

\* the places (0-based) at which the pattern occurs in the text
OccurrencesOf(pattern, text) ==
    {k \in 0..(Len(text) - Len(pattern)) :
        SubSeq(text, k + 1, k + Len(pattern)) = pattern}

\* the pattern a strategy of Search hands to fuzzyMatchAndScore: the last
\* word of the query in the book-scoped one, the whole query in the others
ScoredPattern(via, query) ==
    IF via = "book" THEN Fields(query)[Len(Fields(query))] ELSE query

\* C29: for every text and every non-empty pattern, fuzzyMatchAndScore
\* reports a match exactly when the lower-cased pattern is a substring of
\* the lower-cased text, and the score is then the index of its first
\* occurrence (below the text length): the word-prefix and word-contains
\* scores are never returned, so every verse returned by the book-scoped,
\* indexed and full-scan strategies contains the scored pattern as a
\* substring.
C29_MatchIsSubstring ==
    /\ (call.op = "fuzzyMatchAndScore" /\ call.pattern # <<>>) =>
          LET found == OccurrencesOf(ToLower(call.pattern), ToLower(call.text))
          IN  /\ res.matches <=> found # {}
              /\ res.matches =>
                    /\ res.score \in found
                    /\ \A k \in found : res.score <= k
                    /\ res.score < Len(call.text)
    /\ (call.op = "Search" /\ res.via \in {"book", "index", "scan"}) =>
          \A i \in 1..Len(res.verses) :
              OccurrencesOf(ToLower(ScoredPattern(res.via, call.query)),
                            ToLower(res.verses[i].Text)) # {}

\* a pattern in capital letters has been matched inside a text, behind its
\* first word
C29_Witness ==
    /\ call.op = "fuzzyMatchAndScore"
    /\ call.pattern = <<"G", "O", "D">>
    /\ res.matches
    /\ res.score > 0
=============================================================================
